---- MODULE Spec2Model ----
\* Quote approval workflow of app/quotes/routes.py: the recalculation of a
\* quote's totals, the approval rule matcher and the sequential approval chain
\* (request_approval / act_on_approval), with the approval rule master that
\* edits the rule configuration.  Every request handler is one atomic action:
\* requests are served one at a time, to completion.
\*
\* Money is an integer number of millionths of the currency unit, which holds
\* the exact Decimal products of two-decimal quantities, two-decimal amounts
\* and whole percentages; a quantity is an integer number of hundredths.  The
\* Numeric(12, 2) columns keep two decimals of it when a handler commits.  A
\* null integer id is 0, a null or empty string is "".
EXTENDS Integers, Sequences, FiniteSets, TLC

VARIABLES quotes, items, rules, steps, approvals, nextApprovalId, response,
          config, tenants, g, engines, request, thread, parked, frames

\* the tenant store's tables
workflow == <<quotes, items, rules, steps, approvals, nextApprovalId>>

\* the process configuration, the platform registry, the URLs create_engine was
\* called with, and the context locals: g and request are those of the thread
\* that is running, parked holds those of the threads that are not; frames
\* holds, for each worker serving a quote request, the handler it is in, how
\* far it has come and the handler's local variables
routing == <<config, tenants, g, engines, request, thread, parked, frames>>

vars == <<quotes, items, rules, steps, approvals, nextApprovalId, response,
          config, tenants, g, engines, request, thread, parked, frames>>

\* ---------------------------------------------------------------- bounds
\* Largest primary key the quote_approvals sequence hands out.
MaxApprovalId == 3

\* Most items a quote holds.
MaxItems == 2

\* Most engines create_engine makes in one run.
MaxEngines == 3

\* ---------------------------------------------------------------- fixture
None == 0

Users == {1, 2, 3}
Quotes == {1, 2}
RuleIds == {1, 2}
StepIds == {1, 2, 3}

\* users.role -> roles.name
RoleName == [u \in Users |-> CASE u = 1 -> "Manager" [] u = 2 -> "Finance" [] OTHER -> "Sales"]

\* role permissions: only the Manager role holds quotes.view_all
Perms == [u \in Users |-> IF u = 1 THEN {"quotes.view_all"} ELSE {}]

\* employee_profiles.reporting_manager_user_id: user 3 reports to user 2
ReportingManager == [u \in Users |-> IF u = 3 THEN 2 ELSE None]

\* users.company_branch_id: every user works under company branch 1
UserCompanyBranch == [u \in Users |-> 1]

\* company_branches.state by branch id
company_branch_state(id) == IF id = 1 THEN "karnataka" ELSE ""

Rupees(n) == n * 1000000

\* a two-decimal amount, given in hundredths of the currency unit
Paise(n) == n * 10000

\* a Numeric(10, 2) quantity of n units
Units(n) == n * 100

\* ---------------------------------------------------------------- text
\* str.strip().lower() and str.strip().upper() on the strings the model uses
\* mutant: the state names are compared as written
Lower_Identity(s) == s

Lower(s) == CASE s = "Karnataka" -> "karnataka"
              [] s = "KARNATAKA" -> "karnataka"
              [] s = "Kerala" -> "kerala"
              [] OTHER -> s

Upper(s) == CASE s = "inr" -> "INR"
              [] s = "usd" -> "USD"
              [] s = "annual" -> "ANNUAL"
              [] s = "half_yearly" -> "HALF_YEARLY"
              [] s = "monthly" -> "MONTHLY"
              [] s = "onetime" -> "ONETIME"
              [] OTHER -> s

Max(a, b) == IF a >= b THEN a ELSE b

\* The elements of S as a sequence in increasing order of key[x] (an injective
\* integer key): ORDER BY ... ASC.
RECURSIVE OrderBy(_, _)
OrderBy(S, key) ==
    IF S = {} THEN <<>>
    ELSE LET m == CHOOSE x \in S : \A y \in S : key[x] <= key[y]
         IN  <<m>> \o OrderBy(S \ {m}, key)

RECURSIVE SumSeq(_)
SumSeq(s) == IF s = <<>> THEN 0 ELSE Head(s) + SumSeq(Tail(s))

\* ---------------------------------------------------------------- access
\* _team_user_ids: the manager and everyone reporting to them, transitively
RECURSIVE TeamClosure(_)
TeamClosure(seen) ==
    LET more == {u \in Users : ReportingManager[u] \in seen} \ seen
    IN  IF more = {} THEN seen ELSE TeamClosure(seen \cup more)

_team_user_ids(manager_user_id) == TeamClosure({manager_user_id})

has_perm(u, code) == code \in Perms[u]

_can_access_quote(u, q) ==
    \/ has_perm(u, "quotes.view_all")
    \/ quotes[q].created_by_id = u
    \/ /\ quotes[q].owner_id # None
       /\ quotes[q].owner_id \in _team_user_ids(u)

\* ---------------------------------------------------------------- recalculation
ALLOWED_BILLING == {"ONETIME", "MONTHLY", "HALF_YEARLY", "ANNUAL"}

\* mutant: a half-yearly item is billed twice
BILLING_MULT_TwoHalves == [c \in ALLOWED_BILLING |->
    CASE c = "HALF_YEARLY" -> 2 [] c = "ANNUAL" -> 12 [] OTHER -> 1]

BILLING_MULT == [c \in ALLOWED_BILLING |->
    CASE c = "HALF_YEARLY" -> 6 [] c = "ANNUAL" -> 12 [] OTHER -> 1]

_norm_cycle(v) ==
    LET w == Upper(IF v = "" THEN "ONETIME" ELSE v)
    IN  IF w \in ALLOWED_BILLING THEN w ELSE "ONETIME"

\* mutant: the quote's billing_state is preferred to the client branch's state
CustomerState_BillingFirst(q) ==
    IF q.billing_state # "" THEN q.billing_state ELSE q.branch_state

\* The customer state _calculate_tax_components uses: the linked client
\* branch's state when it is set, the quote's billing_state otherwise.
\* (q.branch_state is q.branch.state, the state of the ClientBranch row the
\* quote links to.)
CustomerState(q) ==
    IF q.branch_id # None /\ q.branch_state # ""
    THEN q.branch_state
    ELSE q.billing_state

\* mutant: the total tax leaves out sgst
_calculate_tax_components_NoSgst(q) ==
    LET base == Max(q.subtotal - q.discount, 0)
        cgst == (base \div 100) * 9
    IN  IF q.is_gst_applicable /\ q.currency = "INR" /\ q.billing_state # ""
        THEN <<cgst, cgst, 0, cgst>>
        ELSE <<0, 0, 0, 0>>

\* <<cgst, sgst, igst, total_tax>> of a quote record whose subtotal is current.
\* The taxable base is a multiple of 100 millionths, so the divisions by 100
\* are exact; they come first to keep the products small.
_calculate_tax_components(q) ==
    LET q_currency == Upper(IF q.currency = "" THEN "INR" ELSE q.currency)
        subtotal == Max(q.subtotal - q.discount, 0)
        customer_state == CustomerState(q)
    IN  IF q_currency # "INR" THEN <<0, 0, 0, 0>>
        ELSE IF q.company_branch_id = None \/ company_branch_state(q.company_branch_id) = ""
             THEN <<0, 0, 0, 0>>
        ELSE IF customer_state = "" \/ ~q.is_gst_applicable THEN <<0, 0, 0, 0>>
        ELSE IF Lower(company_branch_state(q.company_branch_id)) = Lower(customer_state)
             THEN LET cgst == (subtotal \div 100) * 9
                      sgst == (subtotal \div 100) * 9
                  IN  <<cgst, sgst, 0, cgst + sgst + 0>>
             ELSE LET igst == (subtotal \div 100) * 18
                  IN  <<0, 0, igst, 0 + 0 + igst>>

\* The items of a quote after _recalc_quote: cycle normalised, amount set to
\* qty * rate * mult (a rate is a multiple of 100 millionths and qty counts
\* hundredths, so the division by 100 is exact).
RecalcItems(its) ==
    [i \in DOMAIN its |->
        LET cycle == _norm_cycle(its[i].billing_cycle)
        IN  [its[i] EXCEPT !.billing_cycle = cycle,
                           !.amount = its[i].qty * (its[i].rate \div 100) * BILLING_MULT[cycle]]]

\* mutant: the subtotal is added to the one the quote already holds
_recalc_quote_Accumulating(q, its) ==
    LET subtotal == q.subtotal + SumSeq([i \in DOMAIN its |-> RecalcItems(its)[i].amount])
        q1 == [q EXCEPT !.subtotal = subtotal]
        t == _calculate_tax_components(q1)
        total == subtotal - q.discount + t[4]
    IN  [q1 EXCEPT !.tax = t[4], !.cgst = t[1], !.sgst = t[2], !.igst = t[3],
                   !.total = total, !.total_amount = total]

\* The quote record after _recalc_quote, given its recalculated items.
_recalc_quote(q, its) ==
    LET subtotal == SumSeq([i \in DOMAIN its |-> RecalcItems(its)[i].amount])
        q1 == [q EXCEPT !.subtotal = subtotal]
        t == _calculate_tax_components(q1)
        total == subtotal - q.discount + t[4]
    IN  [q1 EXCEPT !.tax = t[4], !.cgst = t[1], !.sgst = t[2], !.igst = t[3],
                   !.total = total, !.total_amount = total]

\* A Decimal as a Numeric(12, 2) column stores it: two decimals, the half
\* rounded away from zero.
Numeric2(x) ==
    IF x < 0 THEN 0 - (((5000 - x) \div 10000) * 10000)
    ELSE ((x + 5000) \div 10000) * 10000

\* the quote row db.session.commit() writes for the recalculated quote
Stored(q) ==
    [q EXCEPT !.subtotal = Numeric2(@), !.tax = Numeric2(@), !.cgst = Numeric2(@),
              !.sgst = Numeric2(@), !.igst = Numeric2(@), !.total = Numeric2(@),
              !.total_amount = Numeric2(@)]

\* the item rows db.session.commit() writes for the recalculated items
StoredItems(its) == [i \in DOMAIN its |-> [its[i] EXCEPT !.amount = Numeric2(@)]]

\* ---------------------------------------------------------------- rule matcher
\* approval_rules.max_amount IS NULL
NoMax == -1

\* mutant: the matched rules ordered by id alone
RuleKey_ById == [r \in RuleIds |-> r]

\* ORDER BY sort_order ASC, id ASC as one integer key
RuleKey == [r \in RuleIds |-> rules[r].sort_order * (Cardinality(RuleIds) + 1) + r]

\* ORDER BY step_order ASC, id ASC as one integer key
StepKey == [s \in StepIds |-> steps[s].step_order * (Cardinality(StepIds) + 1) + s]

\* mutant: the lower bound of a rule is not checked
_matching_rules_NoMin(total_amount) ==
    LET active == OrderBy({r \in RuleIds : rules[r].is_active}, RuleKey)
        Keep(r) == ~(rules[r].max_amount # NoMax /\ total_amount > rules[r].max_amount)
    IN  SelectSeq(active, Keep)

\* mutant: the upper bound of a rule is exclusive
_matching_rules_ExclusiveMax(total_amount) ==
    LET active == OrderBy({r \in RuleIds : rules[r].is_active}, RuleKey)
        Keep(r) == /\ ~(total_amount < rules[r].min_amount)
                   /\ ~(rules[r].max_amount # NoMax /\ total_amount >= rules[r].max_amount)
    IN  SelectSeq(active, Keep)

\* the matched rule ids, in matched order
_matching_rules(total_amount) ==
    LET active == OrderBy({r \in RuleIds : rules[r].is_active}, RuleKey)
        Keep(r) == /\ ~(total_amount < rules[r].min_amount)
                   /\ ~(rules[r].max_amount # NoMax /\ total_amount > rules[r].max_amount)
    IN  SelectSeq(active, Keep)

\* the active steps of rule r, in step order
ActiveSteps(r) ==
    OrderBy({s \in StepIds : steps[s].rule_id = r /\ steps[s].is_active}, StepKey)

\* ---------------------------------------------------------------- approvals
\* q.approvals: the primary keys of the quote's QuoteApproval rows
QuoteApprovals(apps, q) == {a \in DOMAIN apps : apps[a].quote_id = q}

\* ORDER BY step_order ASC, id ASC as one integer key
ApprovalKey(apps) ==
    [a \in DOMAIN apps |-> apps[a].step_order * (MaxApprovalId + 2) + a]

\* the first WAITING row of the quote by (step_order, id), or None
FirstWaiting(apps, q) ==
    LET waiting == {a \in QuoteApprovals(apps, q) : apps[a].status = "WAITING"}
    IN  IF waiting = {} THEN None ELSE OrderBy(waiting, ApprovalKey(apps))[1]

\* mutant: the WAITING row with the highest step_order is activated
_activate_next_step_if_any_Highest(apps, q) ==
    LET waiting == {a \in QuoteApprovals(apps, q) : apps[a].status = "WAITING"}
        nxt == IF waiting = {} THEN None
               ELSE OrderBy(waiting, ApprovalKey(apps))[Cardinality(waiting)]
    IN  IF nxt # None THEN [apps EXCEPT ![nxt].status = "PENDING"] ELSE apps

\* mutant: the next WAITING row is looked up over all quotes
_activate_next_step_if_any_AnyQuote(apps, q) ==
    LET waiting == {a \in DOMAIN apps : apps[a].status = "WAITING"}
        nxt == IF waiting = {} THEN None ELSE OrderBy(waiting, ApprovalKey(apps))[1]
    IN  IF nxt # None THEN [apps EXCEPT ![nxt].status = "PENDING"] ELSE apps

\* the approvals table after _activate_next_step_if_any(q)
_activate_next_step_if_any(apps, q) ==
    LET nxt == FirstWaiting(apps, q)
    IN  IF nxt # None THEN [apps EXCEPT ![nxt].status = "PENDING"] ELSE apps

\* mutant: the approver check lets every user through
_user_can_act_on_Anyone(qa, u) == TRUE

_user_can_act_on(qa, u) ==
    IF qa.approver_user_id # None /\ qa.approver_user_id = u THEN TRUE
    ELSE IF qa.approver_role # "" /\ qa.approver_role = RoleName[u] THEN TRUE
    ELSE FALSE

\* The rows request_approval adds to the session, rule after rule, up to the
\* first matched rule without an active step: [step_ids, ok].
RECURSIVE PlanSteps(_)
PlanSteps(matched) ==
    IF matched = <<>> THEN [step_ids |-> <<>>, ok |-> TRUE]
    ELSE LET st == ActiveSteps(Head(matched))
         IN  IF st = <<>> THEN [step_ids |-> <<>>, ok |-> FALSE]
             ELSE LET rest == PlanSteps(Tail(matched))
                  IN  [step_ids |-> st \o rest.step_ids, ok |-> rest.ok]

\* QuoteApproval(quote_id, rule_id, rule_step_id, step_order, approver_role,
\*               approver_user_id, status="WAITING")
NewApproval(q, s, global_step) ==
    [quote_id |-> q, rule_id |-> steps[s].rule_id, rule_step_id |-> s,
     step_order |-> global_step,
     approver_role |-> steps[s].approver_role,
     approver_user_id |-> steps[s].approver_user_id,
     status |-> "WAITING", remark |-> "", acted_by_id |-> None, acted_at |-> None]

\* mutant: only PENDING rows are cancelled
CancelOpen_OnlyPending(apps, q) ==
    [x \in DOMAIN apps |->
        IF x \in QuoteApprovals(apps, q) /\ apps[x].status = "PENDING"
        THEN [apps[x] EXCEPT !.status = "CANCELLED"]
        ELSE apps[x]]

\* q.approvals.filter(status in (WAITING, PENDING)).update(status=CANCELLED)
CancelOpen(apps, q) ==
    [x \in DOMAIN apps |->
        IF x \in QuoteApprovals(apps, q) /\ apps[x].status \in {"WAITING", "PENDING"}
        THEN [apps[x] EXCEPT !.status = "CANCELLED"]
        ELSE apps[x]]

\* mutant: only the WAITING rows are counted
WorkflowComplete_OnlyWaiting(apps, q) ==
    Cardinality({x \in QuoteApprovals(apps, q) : apps[x].status = "WAITING"}) = 0

\* pending_left == 0 and waiting_left == 0
WorkflowComplete(apps, q) ==
    LET pending_left == Cardinality({x \in QuoteApprovals(apps, q) : apps[x].status = "PENDING"})
        waiting_left == Cardinality({x \in QuoteApprovals(apps, q) : apps[x].status = "WAITING"})
    IN  pending_left = 0 /\ waiting_left = 0

\* mutant: a quote selected by the client is not treated as locked
LockedStatuses_NoSelected == {"Pending Approval", "Approved", "Sent"}

\* mutant: a quote under approval is not treated as locked
LockedStatuses_NoPending == {"Approved", "Sent", "Selected"}

LockedStatuses == {"Pending Approval", "Approved", "Sent", "Selected"}

\* datetime.utcnow(): the model has one instant, which tells a recorded
\* acted_at from a null one
utcnow == 1

\* the response of a handler: the handler that served the request, the
\* message it flashes and the endpoint it redirects to (or the status code it
\* ends with)
Flash(handler, msg, endpoint) == [handler |-> handler, flash |-> msg, endpoint |-> endpoint]

Abort(handler, code) == [handler |-> handler, flash |-> "", endpoint |-> code]

\* ---------------------------------------------------------------- handlers
\* POST /<quote_id>/request-approval as user u
request_approval(u, q) ==
    IF ~_can_access_quote(u, q)
    THEN /\ response' = Abort("request_approval", "403")
         /\ UNCHANGED <<quotes, items, rules, steps, approvals, nextApprovalId>>
    ELSE
    LET its == StoredItems(RecalcItems(items[q]))
        rq == Stored(_recalc_quote(quotes[q], items[q]))
        matched == _matching_rules(rq.total)
        plan == PlanSteps(matched)
        n == Len(plan.step_ids)
        kept == [a \in DOMAIN approvals \ QuoteApprovals(approvals, q) |-> approvals[a]]
        added == [a \in nextApprovalId .. (nextApprovalId + n - 1) |->
                     NewApproval(q, plan.step_ids[a - nextApprovalId + 1],
                                 a - nextApprovalId + 1)]
        committed == [a \in DOMAIN kept \cup DOMAIN added |->
                         IF a \in DOMAIN added THEN added[a] ELSE kept[a]]
    IN  /\ items' = [items EXCEPT ![q] = its]
        /\ UNCHANGED <<rules, steps>>
        /\ IF rq.status \in LockedStatuses
           THEN /\ quotes' = [quotes EXCEPT ![q] = rq]
                /\ response' = Flash("request_approval", "Quote is locked. You cannot request approval in current status.",
                                     "quotes.view_quote")
                /\ UNCHANGED <<approvals, nextApprovalId>>
           ELSE IF matched = <<>>
           THEN /\ quotes' = [quotes EXCEPT ![q] = [rq EXCEPT !.status = "Approved"]]
                /\ response' = Flash("request_approval", "No approval required for this amount. Quote auto-approved",
                                     "quotes.view_quote")
                /\ UNCHANGED <<approvals, nextApprovalId>>
           ELSE /\ nextApprovalId + n - 1 <= MaxApprovalId
                /\ nextApprovalId' = nextApprovalId + n
                /\ IF ~plan.ok
                   THEN \* the old rows are deleted and committed; the rows added so
                        \* far were only flushed and go with the session
                        /\ approvals' = kept
                        /\ quotes' = [quotes EXCEPT ![q] = rq]
                        /\ response' = Flash("request_approval", "Rule has no steps. Add steps in Approval Rules.",
                                             "quotes.edit_quote")
                   ELSE IF n = 0
                   THEN /\ approvals' = kept
                        /\ quotes' = [quotes EXCEPT ![q] = rq]
                        /\ response' = Flash("request_approval", "No approval steps created. Please check rules/steps.",
                                             "quotes.edit_quote")
                   ELSE /\ LET first == FirstWaiting(committed, q)
                           IN  approvals' = IF first # None
                                            THEN [committed EXCEPT ![first].status = "PENDING"]
                                            ELSE committed
                        /\ quotes' = [quotes EXCEPT ![q] = [rq EXCEPT !.status = "Pending Approval"]]
                        /\ response' = Flash("request_approval", "Approval requested (Sequential flow started)",
                                             "quotes.view_quote")

\* POST /approval/<approval_id>/act as user u with form fields decision, remark
act_on_approval(u, approval_id, decision, remark) ==
    IF approval_id \notin DOMAIN approvals
    THEN /\ response' = Abort("act_on_approval", "404")
         /\ UNCHANGED <<quotes, items, rules, steps, approvals, nextApprovalId>>
    ELSE
    LET a == approvals[approval_id]
        q == a.quote_id
        acted == [approvals EXCEPT ![approval_id] =
                     [a EXCEPT !.status = IF decision = "APPROVE" THEN "APPROVED" ELSE "REJECTED",
                               !.remark = remark,
                               !.acted_by_id = u,
                               !.acted_at = utcnow]]
    IN  /\ UNCHANGED <<items, rules, steps, nextApprovalId>>
        /\ IF ~_can_access_quote(u, q)
           THEN /\ response' = Abort("act_on_approval", "403")
                /\ UNCHANGED <<quotes, approvals>>
           ELSE IF a.status # "PENDING"
           THEN /\ response' = Flash("act_on_approval", "This approval is not pending.", "quotes.approvals_inbox")
                /\ UNCHANGED <<quotes, approvals>>
           ELSE IF ~_user_can_act_on(a, u)
           THEN /\ response' = Flash("act_on_approval", "You are not allowed to approve this step.",
                                     "quotes.approvals_inbox")
                /\ UNCHANGED <<quotes, approvals>>
           ELSE IF decision \notin {"APPROVE", "REJECT"}
           THEN /\ response' = Flash("act_on_approval", "Invalid decision.", "quotes.approvals_inbox")
                /\ UNCHANGED <<quotes, approvals>>
           ELSE IF decision = "REJECT"
           THEN /\ approvals' = CancelOpen(acted, q)
                /\ quotes' = [quotes EXCEPT ![q].status = "Rejected"]
                /\ response' = Flash("act_on_approval", "Quote rejected", "quotes.approvals_inbox")
           ELSE LET activated == _activate_next_step_if_any(acted, q)
                IN  /\ approvals' = activated
                    /\ IF WorkflowComplete(activated, q)
                       THEN /\ quotes' = [quotes EXCEPT ![q].status = "Approved"]
                            /\ response' = Flash("act_on_approval", "All approvals completed. Quote Approved",
                                                 "quotes.approvals_inbox")
                       ELSE /\ UNCHANGED quotes
                            /\ response' = Flash("act_on_approval", "", "quotes.approvals_inbox")

\* POST /<quote_id>/items/<item_id>/autosave as user u with JSON body data
autosave_item(u, q, item, data) ==
    IF ~_can_access_quote(u, q)
    THEN /\ response' = Abort("autosave_item", "403")
         /\ UNCHANGED <<quotes, items, rules, steps, approvals, nextApprovalId>>
    ELSE IF item \notin DOMAIN items[q]
    THEN /\ response' = Abort("autosave_item", "404")
         /\ UNCHANGED <<quotes, items, rules, steps, approvals, nextApprovalId>>
    ELSE IF quotes[q].status \in LockedStatuses
    THEN /\ response' = Flash("autosave_item", "Quote locked", "400")
         /\ UNCHANGED <<quotes, items, rules, steps, approvals, nextApprovalId>>
    ELSE
    LET it == [items[q][item] EXCEPT
                  !.qty = data.qty,
                  !.rate = data.rate,
                  !.billing_cycle = _norm_cycle(IF data.billing_cycle # "" THEN data.billing_cycle
                                                ELSE IF @ # "" THEN @ ELSE "ONETIME")]
        its == [items[q] EXCEPT ![item] = it]
        currency == Upper(IF data.currency # "" THEN data.currency
                          ELSE IF quotes[q].currency # "" THEN quotes[q].currency ELSE "INR")
        q1 == [quotes[q] EXCEPT
                  !.discount = data.discount,
                  !.billing_state = data.billing_state,
                  !.currency = currency,
                  !.company_branch_id = IF @ = None THEN UserCompanyBranch[u] ELSE @,
                  !.is_gst_applicable = IF currency # "INR" THEN FALSE ELSE data.is_gst_applicable]
    IN  /\ items' = [items EXCEPT ![q] = StoredItems(RecalcItems(its))]
        /\ quotes' = [quotes EXCEPT ![q] = Stored(_recalc_quote(q1, its))]
        /\ response' = Flash("autosave_item", "ok", "200")
        /\ UNCHANGED <<rules, steps, approvals, nextApprovalId>>

\* GET /<quote_id> as user u
view_quote(u, q) ==
    IF ~_can_access_quote(u, q)
    THEN /\ response' = Abort("view_quote", "403")
         /\ UNCHANGED <<quotes, items, rules, steps, approvals, nextApprovalId>>
    ELSE /\ items' = [items EXCEPT ![q] = StoredItems(RecalcItems(items[q]))]
         /\ quotes' = [quotes EXCEPT ![q] = Stored(_recalc_quote(quotes[q], items[q]))]
         /\ response' = Flash("view_quote", "", "quotes/view.html")
         /\ UNCHANGED <<rules, steps, approvals, nextApprovalId>>

\* GET or POST /<quote_id>/edit as user u; the form carries the quote fields
\* and the fields of one item
edit_quote(u, q, method, form) ==
    IF ~_can_access_quote(u, q)
    THEN /\ response' = Abort("edit_quote", "403")
         /\ UNCHANGED <<quotes, items, rules, steps, approvals, nextApprovalId>>
    ELSE IF quotes[q].status \in LockedStatuses
    THEN /\ response' = Flash("edit_quote", "Quote is locked in current status.", "quotes.view_quote")
         /\ UNCHANGED <<quotes, items, rules, steps, approvals, nextApprovalId>>
    ELSE
    LET q0 == [quotes[q] EXCEPT !.company_branch_id = IF @ = None THEN UserCompanyBranch[u] ELSE @]
        q1 == [q0 EXCEPT
                  !.currency = Upper(IF form.currency = "" THEN "INR" ELSE form.currency),
                  !.is_gst_applicable = form.is_gst_applicable,
                  !.discount = form.discount,
                  !.billing_state = form.billing_state]
        its == IF form.item \in DOMAIN items[q]
               THEN [items[q] EXCEPT ![form.item] =
                        [@ EXCEPT !.qty = form.qty,
                                  !.rate = form.rate,
                                  !.billing_cycle = _norm_cycle(IF form.billing_cycle = "" THEN "ONETIME"
                                                                ELSE form.billing_cycle)]]
               ELSE items[q]
    IN  /\ UNCHANGED <<rules, steps, approvals, nextApprovalId>>
        /\ IF method = "POST"
           THEN /\ items' = [items EXCEPT ![q] = StoredItems(RecalcItems(its))]
                /\ quotes' = [quotes EXCEPT ![q] = Stored(_recalc_quote(q1, its))]
                /\ response' = Flash("edit_quote", "Quote updated", "quotes.edit_quote")
           ELSE /\ items' = [items EXCEPT ![q] = StoredItems(RecalcItems(items[q]))]
                /\ quotes' = [quotes EXCEPT ![q] = Stored(_recalc_quote(q0, items[q]))]
                /\ response' = Flash("edit_quote", "", "quotes/edit.html")

\* GET /<quote_id>/items/add as user u
add_item(u, q) ==
    IF ~_can_access_quote(u, q)
    THEN /\ response' = Abort("add_item", "403")
         /\ UNCHANGED <<quotes, items, rules, steps, approvals, nextApprovalId>>
    ELSE IF quotes[q].status \in LockedStatuses
    THEN /\ response' = Flash("add_item", "Quote is locked.", "quotes.view_quote")
         /\ UNCHANGED <<quotes, items, rules, steps, approvals, nextApprovalId>>
    ELSE /\ Len(items[q]) < MaxItems
         /\ items' = [items EXCEPT ![q] =
                         Append(@, [qty |-> Units(1), rate |-> 0, billing_cycle |-> "ONETIME", amount |-> 0])]
         /\ response' = Flash("add_item", "Item added", "quotes.edit_quote")
         /\ UNCHANGED <<quotes, rules, steps, approvals, nextApprovalId>>

\* POST /<quote_id>/convert-to-client as user u.  The quote is converted at
\* most once, so its Client and ClientBranch rows are numbered by the quote.
convert_quote_to_client(u, q, form) ==
    IF ~_can_access_quote(u, q)
    THEN /\ response' = Abort("convert_quote_to_client", "403")
         /\ UNCHANGED <<quotes, items, rules, steps, approvals, nextApprovalId>>
    ELSE /\ UNCHANGED <<items, rules, steps, approvals, nextApprovalId>>
         /\ IF quotes[q].status \notin {"Approved", "Sent"}
            THEN /\ response' = Flash("convert_quote_to_client", "Only Approved/Sent quotes can be converted.",
                                      "quotes.view_quote")
                 /\ UNCHANGED quotes
            ELSE IF quotes[q].client_id # None
            THEN /\ response' = Flash("convert_quote_to_client", "This quote is already linked to a client.",
                                      "quotes.view_quote")
                 /\ UNCHANGED quotes
            ELSE IF form.company_name = "" \/ form.branch_location = "" \/ form.contact_name = ""
            THEN /\ response' = Flash("convert_quote_to_client",
                                      "Company name, branch location, and at least one contact are required.",
                                      "quotes.view_quote")
                 /\ UNCHANGED quotes
            ELSE IF form.final_payment_date = ""
            THEN /\ response' = Flash("convert_quote_to_client",
                                      "Final Payment Date is required when selecting quote.",
                                      "quotes.view_quote")
                 /\ UNCHANGED quotes
            ELSE /\ quotes' = [quotes EXCEPT ![q] =
                                  [@ EXCEPT !.client_id = q,
                                            !.branch_id = q,
                                            !.branch_state = IF form.state # "" THEN form.state
                                                             ELSE quotes[q].billing_state,
                                            !.status = "Selected"]]
                 /\ response' = Flash("convert_quote_to_client", "Converted to Client and marked as Selected",
                                      "quotes.view_quote")

\* GET or POST /<quote_id>/proposal as user u
proposal_builder(u, q, method, proposal_terms) ==
    IF ~_can_access_quote(u, q)
    THEN /\ response' = Abort("proposal_builder", "403")
         /\ UNCHANGED <<quotes, items, rules, steps, approvals, nextApprovalId>>
    ELSE /\ UNCHANGED <<items, rules, steps, approvals, nextApprovalId>>
         /\ IF quotes[q].status \notin {"Selected", "Sent"}
            THEN /\ response' = Flash("proposal_builder",
                                      "Proposal can be viewed only after Quote is Selected (or Sent).",
                                      "quotes.view_quote")
                 /\ UNCHANGED quotes
            ELSE IF quotes[q].status = "Sent" \/ method # "POST"
            THEN /\ response' = Flash("proposal_builder", "", "quotes/proposal_builder.html")
                 /\ UNCHANGED quotes
            ELSE IF proposal_terms = ""
            THEN /\ response' = Flash("proposal_builder", "Please add Terms & Conditions.",
                                      "quotes.proposal_builder")
                 /\ UNCHANGED quotes
            ELSE /\ quotes' = [quotes EXCEPT ![q].proposal_created_at = utcnow]
                 /\ response' = Flash("proposal_builder", "Proposal saved", "quotes.proposal_builder")

\* GET /<quote_id>/proposal/download as user u
download_proposal(u, q) ==
    IF ~_can_access_quote(u, q)
    THEN /\ response' = Abort("download_proposal", "403")
         /\ UNCHANGED <<quotes, items, rules, steps, approvals, nextApprovalId>>
    ELSE IF quotes[q].status \notin {"Selected", "Sent"}
    THEN /\ response' = Flash("download_proposal", "Proposal download is allowed only for Selected/Sent quotes.",
                              "quotes.view_quote")
         /\ UNCHANGED <<quotes, items, rules, steps, approvals, nextApprovalId>>
    ELSE IF quotes[q].proposal_created_at = None
    THEN /\ response' = Flash("download_proposal", "Proposal not created yet.", "quotes.proposal_builder")
         /\ UNCHANGED <<quotes, items, rules, steps, approvals, nextApprovalId>>
    ELSE /\ items' = [items EXCEPT ![q] = StoredItems(RecalcItems(items[q]))]
         /\ quotes' = [quotes EXCEPT ![q] = Stored(_recalc_quote(quotes[q], items[q]))]
         /\ response' = Flash("download_proposal", "", "proposal.pdf")
         /\ UNCHANGED <<rules, steps, approvals, nextApprovalId>>

\* mutant: the status of the quote is not looked at before it is marked Sent
mark_sent_AnyStatus(u, q) ==
    IF ~_can_access_quote(u, q)
    THEN /\ response' = Abort("mark_sent", "403")
         /\ UNCHANGED <<quotes, items, rules, steps, approvals, nextApprovalId>>
    ELSE /\ UNCHANGED <<items, rules, steps, approvals, nextApprovalId>>
         /\ quotes' = [quotes EXCEPT ![q].status = "Sent"]
         /\ response' = Flash("mark_sent", "Quote marked as Sent", "quotes.view_quote")

\* POST /<quote_id>/mark-sent as user u
mark_sent(u, q) ==
    IF ~_can_access_quote(u, q)
    THEN /\ response' = Abort("mark_sent", "403")
         /\ UNCHANGED <<quotes, items, rules, steps, approvals, nextApprovalId>>
    ELSE /\ UNCHANGED <<items, rules, steps, approvals, nextApprovalId>>
         /\ IF quotes[q].status = "Sent"
            THEN /\ response' = Flash("mark_sent", "Quote is already marked as Sent.", "quotes.view_quote")
                 /\ UNCHANGED quotes
            ELSE IF quotes[q].status # "Selected"
            THEN /\ response' = Flash("mark_sent", "Only Selected quotes can be marked as Sent.",
                                      "quotes.view_quote")
                 /\ UNCHANGED quotes
            ELSE IF quotes[q].proposal_created_at = None
            THEN /\ response' = Flash("mark_sent", "Create Proposal first (add T&Cs) before marking as Sent.",
                                      "quotes.view_quote")
                 /\ UNCHANGED quotes
            ELSE /\ quotes' = [quotes EXCEPT ![q].status = "Sent"]
                 /\ response' = Flash("mark_sent", "Quote marked as Sent", "quotes.view_quote")

\* POST /approval-rules, action=rule_update
rule_update(r, min_amt, max_amt, sort_order, is_active) ==
    /\ UNCHANGED <<quotes, items, steps, approvals, nextApprovalId>>
    /\ IF max_amt # NoMax /\ min_amt > max_amt
       THEN /\ response' = Flash("rule_update", "Min Amount cannot be greater than Max Amount.",
                                 "quotes.approval_rules_master")
            /\ UNCHANGED rules
       ELSE /\ rules' = [rules EXCEPT ![r] = [min_amount |-> min_amt, max_amount |-> max_amt,
                                              sort_order |-> sort_order, is_active |-> is_active]]
            /\ response' = Flash("rule_update", "Approval rule updated", "quotes.approval_rules_master")

\* POST /approval-rules, action=step_update
step_update(s, step_order, approver_role, approver_user_id, is_active) ==
    /\ UNCHANGED <<quotes, items, rules, approvals, nextApprovalId>>
    /\ IF approver_role = "" /\ approver_user_id = None
       THEN /\ response' = Flash("step_update", "Each step must have an approver role or approver user.",
                                 "quotes.approval_rules_master")
            /\ UNCHANGED steps
       ELSE /\ steps' = [steps EXCEPT ![s] = [@ EXCEPT !.step_order = step_order,
                                                       !.approver_role = approver_role,
                                                       !.approver_user_id = approver_user_id,
                                                       !.is_active = is_active]]
            /\ response' = Flash("step_update", "Step updated", "quotes.approval_rules_master")

\* ApprovalRuleStep(rule_id, step_order, approver_role, approver_user_id,
\* is_active=True) as action=step_add stores it; a step may name a role and a
\* user at once, only a step naming neither is refused.
step_add(rule_id, step_order, approver_role, approver_user_id) ==
    [rule_id |-> rule_id, step_order |-> step_order, approver_role |-> approver_role,
     approver_user_id |-> approver_user_id, is_active |-> TRUE]

\* ---------------------------------------------------------------- tenant routing
\* Text the routing code slices is a sequence of characters.
StartsWith(s, prefix) ==
    Len(s) >= Len(prefix) /\ SubSeq(s, 1, Len(prefix)) = prefix

EndsWith(s, suffix) ==
    Len(s) >= Len(suffix) /\ SubSeq(s, Len(s) - Len(suffix) + 1, Len(s)) = suffix

\* s.split(":")[0]
BeforeColon(s) ==
    LET cut == {i \in 1 .. Len(s) : s[i] = ":"}
    IN  IF cut = {} THEN s
        ELSE SubSeq(s, 1, (CHOOSE i \in cut : \A j \in cut : i <= j) - 1)

\* an Engine: the URL it connects to and which create_engine call made it
\* (0 for the engines the extension keeps for the configured URIs)
NoEngine == [url |-> "", serial |-> 0]

PlatformEngine == [url |-> "PLATFORM_DATABASE_URL", serial |-> 0]

DefaultEngine == [url |-> "DATABASE_URL", serial |-> 0]

\* the models and the bind key of each one's table
Models == {"Tenant", "PlatformAdmin", "User", "Quote", "QuoteItem", "ApprovalRule", "QuoteApproval"}

bind_key(model) == IF model \in {"Tenant", "PlatformAdmin"} THEN "platform" ELSE ""

\* the mapper handed to get_bind: none, or the mapper of a model
NoMapper == [class_ |-> "", local_table |-> [info |-> [bind_key |-> ""]]]

MapperOf(model) == [class_ |-> model, local_table |-> [info |-> [bind_key |-> bind_key(model)]]]

Mappers == {NoMapper} \cup {MapperOf(model) : model \in Models}

\* the extension session's get_bind: the engine of the table's bind key, the
\* engine of SQLALCHEMY_DATABASE_URI without one
super_get_bind(mapper) ==
    IF mapper # NoMapper /\ mapper.local_table.info.bind_key = "platform"
    THEN PlatformEngine
    ELSE DefaultEngine

\* mutant: the engine is kept in one place for all threads, the last one made
g_tenant_engine_Shared ==
    IF engines = << >> THEN NoEngine
    ELSE [url |-> engines[Len(engines)], serial |-> Len(engines)]

\* getattr(g, "tenant_engine", None)
g_tenant_engine == IF g.has_tenant_engine THEN g.tenant_engine ELSE NoEngine

\* mutant: the tenant engine is looked at before the bind key
get_bind_TenantFirst(mapper) ==
    IF g_tenant_engine # NoEngine THEN g_tenant_engine
    ELSE super_get_bind(mapper)

get_bind(mapper) ==
    IF mapper # NoMapper /\ mapper.local_table.info.bind_key # ""
    THEN super_get_bind(mapper)
    ELSE LET engine == g_tenant_engine
         IN  IF engine # NoEngine THEN engine
             ELSE super_get_bind(mapper)

\* the path prefixes bind_tenant_database leaves without a tenant
PlatformPrefix == <<"/", "p", "l", "a", "t", "f", "o", "r", "m">>

StaticPrefix == <<"/", "s", "t", "a", "t", "i", "c">>

_get_subdomain_slug(request_host) ==
    LET host == BeforeColon(request_host)
        base == config.BASE_DOMAIN
    IN  IF base # << >> /\ EndsWith(host, base) /\ host # base
        THEN SubSeq(host, 1, Len(host) - (Len(base) + 1))
        ELSE << >>

\* str.lower, character by character
UpperLetters == <<"A", "B", "C", "D", "E", "F", "G", "H", "I", "J", "K", "L", "M", "N", "O", "P", "Q", "R", "S", "T", "U", "V", "W", "X", "Y", "Z">>

LowerLetters == <<"a", "b", "c", "d", "e", "f", "g", "h", "i", "j", "k", "l", "m", "n", "o", "p", "q", "r", "s", "t", "u", "v", "w", "x", "y", "z">>

LowerChars(s) ==
    [i \in 1 .. Len(s) |->
        IF \E k \in 1 .. 26 : UpperLetters[k] = s[i]
        THEN LowerLetters[CHOOSE k \in 1 .. 26 : UpperLetters[k] = s[i]]
        ELSE s[i]]

\* the places of the dots of a host
Dots(s) == {i \in 1 .. Len(s) : s[i] = "."}

\* host.split(".")[0]
FirstLabel(s) ==
    IF Dots(s) = {} THEN s
    ELSE SubSeq(s, 1, (CHOOSE i \in Dots(s) : \A j \in Dots(s) : i <= j) - 1)

\* The helper create_app defines next to _get_subdomain_slug; no handler calls
\* it.  (<< >> is None.)
_extract_subdomain(request_host, base_domain) ==
    LET host == LowerChars(BeforeColon(request_host))
        base == LowerChars(base_domain)
        prefix == SubSeq(host, 1, Len(host) - (Len(base) + 1))
    IN  IF \/ host = <<"l", "o", "c", "a", "l", "h", "o", "s", "t">>
           \/ EndsWith(host, <<".", "l", "o", "c", "a", "l", "h", "o", "s", "t">>)
           \/ StartsWith(host, <<"1", "2", "7", ".">>)
        THEN << >>
        ELSE IF /\ base # << >>
                /\ EndsWith(host, <<".">> \o base)
                /\ prefix # << >>
                /\ Dots(prefix) = {}
        THEN prefix
        ELSE IF Cardinality(Dots(host)) + 1 >= 3 THEN FirstLabel(host)
        ELSE << >>

\* Tenant.query.filter_by(slug=slug, is_active=True): the ids of the rows found
ActiveTenants(slug) ==
    {t \in DOMAIN tenants : tenants[t].slug = slug /\ tenants[t].is_active}

\* the module's engine cache; nothing reads it or writes to it
_TENANT_ENGINES == << >>

\* the engines made so far after create_engine(url) has made one more
create_engine(url) == Append(engines, url)

\* mutant: the registry lookup leaves out is_active
bind_tenant_database_AnyTenant(request_host, request_path) ==
    LET host_slug == _get_subdomain_slug(request_host)
        slug == IF host_slug = << >> THEN config.DEFAULT_TENANT_SLUG ELSE host_slug
        found == {t \in DOMAIN tenants : tenants[t].slug = slug}
    IN  /\ response' = [handler |-> "bind_tenant_database", flash |-> "", endpoint |-> ""]
        /\ request' = [host |-> request_host]
        /\ UNCHANGED <<config, tenants, thread, parked, frames>>
        /\ UNCHANGED workflow
        /\ IF StartsWith(request_path, PlatformPrefix) \/ StartsWith(request_path, StaticPrefix)
           THEN /\ g' = [has_tenant_engine |-> FALSE, tenant_engine |-> NoEngine]
                /\ UNCHANGED engines
           ELSE IF slug = << >> \/ found = {}
           THEN /\ g' = [has_tenant_engine |-> TRUE, tenant_engine |-> NoEngine]
                /\ UNCHANGED engines
           ELSE /\ Len(engines) < MaxEngines
                /\ engines' = create_engine(tenants[CHOOSE t \in found : TRUE].db_uri)
                /\ g' = [has_tenant_engine |-> TRUE,
                         tenant_engine |-> [url |-> tenants[CHOOSE t \in found : TRUE].db_uri,
                                            serial |-> Len(engines) + 1]]

\* before_request: a new request, with a fresh g, on the running thread
bind_tenant_database(request_host, request_path) ==
    LET host_slug == _get_subdomain_slug(request_host)
        slug == IF host_slug = << >> THEN config.DEFAULT_TENANT_SLUG ELSE host_slug
        found == ActiveTenants(slug)
    IN  /\ response' = [handler |-> "bind_tenant_database", flash |-> "", endpoint |-> ""]
        /\ request' = [host |-> request_host]
        /\ UNCHANGED <<config, tenants, thread, parked, frames>>
        /\ UNCHANGED workflow
        /\ IF StartsWith(request_path, PlatformPrefix) \/ StartsWith(request_path, StaticPrefix)
           THEN /\ g' = [has_tenant_engine |-> FALSE, tenant_engine |-> NoEngine]
                /\ UNCHANGED engines
           ELSE IF slug = << >> \/ found = {}
           THEN /\ g' = [has_tenant_engine |-> TRUE, tenant_engine |-> NoEngine]
                /\ UNCHANGED engines
           ELSE /\ Len(engines) < MaxEngines
                /\ engines' = create_engine(tenants[CHOOSE t \in found : TRUE].db_uri)
                /\ g' = [has_tenant_engine |-> TRUE,
                         tenant_engine |-> [url |-> tenants[CHOOSE t \in found : TRUE].db_uri,
                                            serial |-> Len(engines) + 1]]

\* a session operation on a model (or on none) of the running request; the
\* response holds the bind the session chose
session_operation(mapper) ==
    /\ response' = [handler |-> "get_bind", flash |-> "", endpoint |-> "",
                    mapper |-> mapper, bind |-> get_bind(mapper)]
    /\ UNCHANGED routing
    /\ UNCHANGED workflow

\* POST of the platform's tenant form: slug and db_uri as they stand
tenants_edit(tenant_id, form) ==
    /\ response' = [handler |-> "tenants_edit",
                    flash |-> IF form.dates_in_order THEN "Tenant updated."
                              ELSE "End date cannot be before start date.",
                    endpoint |-> IF form.dates_in_order THEN "platform.tenants_list"
                                 ELSE "platform.tenants_edit"]
    /\ tenants' = IF form.dates_in_order
                  THEN [tenants EXCEPT ![tenant_id].is_active = form.is_active]
                  ELSE tenants
    /\ UNCHANGED <<config, g, engines, request, thread, parked, frames>>
    /\ UNCHANGED workflow

Threads == {1, 2}

\* the workers that serve quote requests side by side
Workers == {1, 2}

\* the frame of a worker that has served no request yet
NoFrame ==
    [pc |-> "idle", handler |-> "", u |-> None, q |-> None, approval_id |-> None,
     decision |-> "", remark |-> "", rules |-> << >>]

\* the context locals of a thread that serves no request
NoContext ==
    [g |-> [has_tenant_engine |-> FALSE, tenant_engine |-> NoEngine], request |-> [host |-> << >>]]

\* the scheduler runs another thread: g and request are context-local, each
\* thread sees its own; the thread scheduled has produced no response yet
switch_thread(t) ==
    /\ t # thread
    /\ thread' = t
    /\ parked' = [parked EXCEPT ![thread] = [g |-> g, request |-> request], ![t] = NoContext]
    /\ g' = parked[t].g
    /\ request' = parked[t].request
    /\ response' = [handler |-> "", flash |-> "", endpoint |-> ""]
    /\ UNCHANGED <<config, tenants, engines, frames>>
    /\ UNCHANGED workflow

TenantIds == {1, 2}

TenantForms == [is_active : BOOLEAN, dates_in_order : BOOLEAN]

Hosts ==
    { <<"a", ".", "x", ".", "i", "o">>,
      <<"b", ".", "x", ".", "i", "o", ":", "8", "0", "0", "0">>,
      <<"c", ".", "x", ".", "i", "o">>,
      <<"x", ".", "i", "o">>,
      <<"a", "x", ".", "i", "o">>,
      <<"b", "a", "x", ".", "i", "o">>,
      <<"l", "o", "c", "a", "l", "h", "o", "s", "t", ":", "5", "0", "0", "0">> }

Paths ==
    { <<"/", "p", "l", "a", "t", "f", "o", "r", "m", "/", "t", "e", "n", "a", "n", "t", "s">>,
      <<"/", "s", "t", "a", "t", "i", "c", "/", "a", "p", "p", ".", "c", "s", "s">>,
      <<"/", "q", "u", "o", "t", "e", "s", "/", "1">>,
      <<"/">> }

InitRouting ==
    /\ config = [BASE_DOMAIN |-> <<"x", ".", "i", "o">>, DEFAULT_TENANT_SLUG |-> << >>]
    /\ tenants = [t \in TenantIds |->
                    IF t = 1 THEN [slug |-> <<"a">>, db_uri |-> "mysql://db/tenant_a", is_active |-> TRUE]
                    ELSE [slug |-> <<"b">>, db_uri |-> "mysql://db/tenant_b", is_active |-> TRUE]]
    /\ g = [has_tenant_engine |-> FALSE, tenant_engine |-> NoEngine]
    /\ engines = << >>
    /\ request = [host |-> << >>]
    /\ thread = 1
    /\ parked = [t \in Threads |-> NoContext]
    /\ frames = [w \in Workers |-> NoFrame]

\* ---------------------------------------------------------------- handlers, commit by commit
\* request_approval and act_on_approval as the workers run them side by side:
\* one action from each db.session.commit() to the next (the statements of a
\* handler up to its first write see one state of the tables).  When a worker
\* has finished, its frame still tells which request it served last.
Finished(w) ==
    [frames EXCEPT ![w].pc = "idle", ![w].u = None, ![w].remark = "", ![w].rules = << >>]

\* request_approval, lines 551-563: access, recalculation and commit, lock
\* check, rule matching, and the auto-approval when no rule matches
request_approval_recalc(w, u, q) ==
    /\ frames[w].pc = "idle"
    /\ UNCHANGED <<rules, steps, approvals, nextApprovalId>>
    /\ IF ~_can_access_quote(u, q)
       THEN /\ response' = Abort("request_approval", "403")
            /\ UNCHANGED <<quotes, items, frames>>
       ELSE LET its == StoredItems(RecalcItems(items[q]))
                rq == Stored(_recalc_quote(quotes[q], items[q]))
                matched == _matching_rules(rq.total)
            IN  /\ items' = [items EXCEPT ![q] = its]
                /\ IF rq.status \in LockedStatuses
                   THEN /\ quotes' = [quotes EXCEPT ![q] = rq]
                        /\ response' = Flash("request_approval",
                                             "Quote is locked. You cannot request approval in current status.",
                                             "quotes.view_quote")
                        /\ UNCHANGED frames
                   ELSE IF matched = <<>>
                   THEN /\ quotes' = [quotes EXCEPT ![q] = [rq EXCEPT !.status = "Approved"]]
                        /\ response' = Flash("request_approval",
                                             "No approval required for this amount. Quote auto-approved",
                                             "quotes.view_quote")
                        /\ UNCHANGED frames
                   ELSE /\ quotes' = [quotes EXCEPT ![q] = rq]
                        /\ frames' = [frames EXCEPT ![w] =
                                         [pc |-> "request_approval_delete", handler |-> "request_approval",
                                          u |-> u, q |-> q, approval_id |-> None, decision |-> "",
                                          remark |-> "", rules |-> matched]]
                        /\ UNCHANGED response

\* lines 575-576: the quote's rows are deleted and the deletion committed
request_approval_delete(w) ==
    LET q == frames[w].q
    IN  /\ frames[w].pc = "request_approval_delete"
        /\ approvals' = [a \in DOMAIN approvals \ QuoteApprovals(approvals, q) |-> approvals[a]]
        /\ frames' = [frames EXCEPT ![w].pc = "request_approval_create"]
        /\ UNCHANGED <<quotes, items, rules, steps, nextApprovalId, response>>

\* lines 578-609: the steps of the matched rules are read and their rows added
\* and committed
request_approval_create(w) ==
    LET q == frames[w].q
        plan == PlanSteps(frames[w].rules)
        n == Len(plan.step_ids)
        added == [a \in nextApprovalId .. (nextApprovalId + n - 1) |->
                     NewApproval(q, plan.step_ids[a - nextApprovalId + 1],
                                 a - nextApprovalId + 1)]
    IN  /\ frames[w].pc = "request_approval_create"
        /\ nextApprovalId + n - 1 <= MaxApprovalId
        /\ nextApprovalId' = nextApprovalId + n
        /\ UNCHANGED <<quotes, items, rules, steps>>
        /\ IF ~plan.ok
           THEN /\ UNCHANGED approvals
                /\ frames' = Finished(w)
                /\ response' = Flash("request_approval", "Rule has no steps. Add steps in Approval Rules.",
                                     "quotes.edit_quote")
           ELSE IF n = 0
           THEN /\ UNCHANGED approvals
                /\ frames' = Finished(w)
                /\ response' = Flash("request_approval", "No approval steps created. Please check rules/steps.",
                                     "quotes.edit_quote")
           ELSE /\ approvals' = [a \in DOMAIN approvals \cup DOMAIN added |->
                                    IF a \in DOMAIN added THEN added[a] ELSE approvals[a]]
                /\ frames' = [frames EXCEPT ![w].pc = "request_approval_first"]
                /\ UNCHANGED response

\* lines 611-617: the first WAITING row of the quote becomes PENDING
request_approval_first(w) ==
    LET q == frames[w].q
        first == FirstWaiting(approvals, q)
    IN  /\ frames[w].pc = "request_approval_first"
        /\ approvals' = IF first # None THEN [approvals EXCEPT ![first].status = "PENDING"]
                        ELSE approvals
        /\ frames' = [frames EXCEPT ![w].pc = "request_approval_status"]
        /\ UNCHANGED <<quotes, items, rules, steps, nextApprovalId, response>>

\* lines 619-625: the quote becomes Pending Approval
request_approval_status(w) ==
    LET q == frames[w].q
    IN  /\ frames[w].pc = "request_approval_status"
        /\ quotes' = [quotes EXCEPT ![q].status = "Pending Approval"]
        /\ frames' = Finished(w)
        /\ response' = Flash("request_approval", "Approval requested (Sequential flow started)",
                             "quotes.view_quote")
        /\ UNCHANGED <<items, rules, steps, approvals, nextApprovalId>>

\* act_on_approval, lines 671-690: the row is read and the checks made
act_on_approval_read(w, u, approval_id, decision, remark) ==
    /\ frames[w].pc = "idle"
    /\ UNCHANGED workflow
    /\ IF approval_id \notin DOMAIN approvals
       THEN /\ response' = Abort("act_on_approval", "404")
            /\ UNCHANGED frames
       ELSE LET a == approvals[approval_id]
                q == a.quote_id
            IN  IF ~_can_access_quote(u, q)
                THEN /\ response' = Abort("act_on_approval", "403")
                     /\ UNCHANGED frames
                ELSE IF a.status # "PENDING"
                THEN /\ response' = Flash("act_on_approval", "This approval is not pending.",
                                          "quotes.approvals_inbox")
                     /\ UNCHANGED frames
                ELSE IF ~_user_can_act_on(a, u)
                THEN /\ response' = Flash("act_on_approval", "You are not allowed to approve this step.",
                                          "quotes.approvals_inbox")
                     /\ UNCHANGED frames
                ELSE IF decision \notin {"APPROVE", "REJECT"}
                THEN /\ response' = Flash("act_on_approval", "Invalid decision.", "quotes.approvals_inbox")
                     /\ UNCHANGED frames
                ELSE /\ frames' = [frames EXCEPT ![w] =
                                      [pc |-> "act_on_approval_decide", handler |-> "act_on_approval",
                                       u |-> u, q |-> q, approval_id |-> approval_id,
                                       decision |-> decision, remark |-> remark, rules |-> << >>]]
                     /\ UNCHANGED response

\* lines 692-696: the decision is written to the row by its primary key and
\* committed; a row deleted in the meantime makes the flush fail
act_on_approval_decide(w) ==
    LET f == frames[w]
    IN  /\ f.pc = "act_on_approval_decide"
        /\ UNCHANGED <<quotes, items, rules, steps, nextApprovalId>>
        /\ IF f.approval_id \notin DOMAIN approvals
           THEN /\ UNCHANGED approvals
                /\ frames' = Finished(w)
                /\ response' = Abort("act_on_approval", "500")
           ELSE /\ approvals' = [approvals EXCEPT ![f.approval_id] =
                                    [@ EXCEPT !.status = IF f.decision = "APPROVE" THEN "APPROVED"
                                                         ELSE "REJECTED",
                                              !.remark = f.remark,
                                              !.acted_by_id = f.u,
                                              !.acted_at = utcnow]]
                /\ frames' = [frames EXCEPT ![w].pc =
                                 IF f.decision = "REJECT" THEN "act_on_approval_cancel"
                                 ELSE "act_on_approval_activate"]
                /\ UNCHANGED response

\* lines 698-701: the open rows of the quote are cancelled
act_on_approval_cancel(w) ==
    /\ frames[w].pc = "act_on_approval_cancel"
    /\ approvals' = CancelOpen(approvals, frames[w].q)
    /\ frames' = [frames EXCEPT ![w].pc = "act_on_approval_rejected"]
    /\ UNCHANGED <<quotes, items, rules, steps, nextApprovalId, response>>

\* lines 703-709: the quote becomes Rejected
act_on_approval_rejected(w) ==
    /\ frames[w].pc = "act_on_approval_rejected"
    /\ quotes' = [quotes EXCEPT ![frames[w].q].status = "Rejected"]
    /\ frames' = Finished(w)
    /\ response' = Flash("act_on_approval", "Quote rejected", "quotes.approvals_inbox")
    /\ UNCHANGED <<items, rules, steps, approvals, nextApprovalId>>

\* line 711: _activate_next_step_if_any(q)
act_on_approval_activate(w) ==
    /\ frames[w].pc = "act_on_approval_activate"
    /\ approvals' = _activate_next_step_if_any(approvals, frames[w].q)
    /\ frames' = [frames EXCEPT ![w].pc = "act_on_approval_count"]
    /\ UNCHANGED <<quotes, items, rules, steps, nextApprovalId, response>>

\* lines 713-722: the rows left are counted and the quote approved when none is
act_on_approval_count(w) ==
    LET q == frames[w].q
    IN  /\ frames[w].pc = "act_on_approval_count"
        /\ frames' = Finished(w)
        /\ UNCHANGED <<items, rules, steps, approvals, nextApprovalId>>
        /\ IF WorkflowComplete(approvals, q)
           THEN /\ quotes' = [quotes EXCEPT ![q].status = "Approved"]
                /\ response' = Flash("act_on_approval", "All approvals completed. Quote Approved",
                                     "quotes.approvals_inbox")
           ELSE /\ UNCHANGED quotes
                /\ response' = Flash("act_on_approval", "", "quotes.approvals_inbox")

\* ---------------------------------------------------------------- inputs
\* JSON bodies the quote editor posts to autosave_item
AutosavePayloads ==
    { [qty |-> Units(2), rate |-> Rupees(1), billing_cycle |-> "half_yearly", discount |-> 0,
       billing_state |-> "Karnataka", currency |-> "inr", is_gst_applicable |-> TRUE] }

Decisions == {"APPROVE", "REJECT", "HOLD"}
Remarks == {"ok"}
\* the steps the rule master edits
StepsEdited == {1}

\* ---------------------------------------------------------------- specification
\* Quote(...) and its first QuoteItem as create_quote stores them
NewQuote(u, owner) ==
    [status |-> "Draft", created_by_id |-> u, owner_id |-> owner,
     company_branch_id |-> UserCompanyBranch[u],
     client_id |-> None, branch_id |-> None, branch_state |-> "",
     proposal_created_at |-> None,
     currency |-> "INR", is_gst_applicable |-> TRUE, billing_state |-> "",
     discount |-> 0, subtotal |-> 0, tax |-> 0, cgst |-> 0, sgst |-> 0, igst |-> 0,
     total |-> 0, total_amount |-> 0]

NewItem == [qty |-> Units(1), rate |-> 0, billing_cycle |-> "ONETIME", amount |-> 0]

Init ==
    /\ quotes = [q \in Quotes |-> IF q = 1 THEN NewQuote(3, 3) ELSE NewQuote(1, 1)]
    /\ items = [q \in Quotes |-> <<NewItem>>]
    /\ rules = [r \in RuleIds |->
                  IF r = 1
                  THEN [min_amount |-> Rupees(1), max_amount |-> NoMax, sort_order |-> 2, is_active |-> TRUE]
                  ELSE [min_amount |-> Rupees(10), max_amount |-> Rupees(50), sort_order |-> 1, is_active |-> TRUE]]
    /\ steps = [s \in StepIds |->
                  CASE s = 1 -> step_add(1, 1, "Manager", None)
                    [] s = 2 -> step_add(2, 2, "", 2)
                    [] OTHER -> step_add(2, 1, "Manager", 2)]
    /\ approvals = << >>
    /\ nextApprovalId = 1
    /\ response = [handler |-> "", flash |-> "", endpoint |-> ""]
    /\ InitRouting

Next ==
    \/ \E u \in Users, q \in Quotes : request_approval(u, q) /\ UNCHANGED routing
    \/ \E u \in Users, a \in 1 .. (nextApprovalId - 1), d \in Decisions, m \in Remarks :
          act_on_approval(u, a, d, m) /\ UNCHANGED routing
    \/ \E u \in Users, q \in Quotes, data \in AutosavePayloads : autosave_item(u, q, 1, data) /\ UNCHANGED routing
    \/ \E r \in RuleIds, act \in BOOLEAN :
          rule_update(r, rules[r].min_amount, rules[r].max_amount, rules[r].sort_order, act) /\ UNCHANGED routing
    \/ \E s \in StepsEdited, act \in BOOLEAN :
          step_update(s, steps[s].step_order, steps[s].approver_role, steps[s].approver_user_id, act) /\ UNCHANGED routing

Spec == Init /\ [][Next]_vars

\* ---------------------------------------------------------------- quote lifecycle
\* The life of one quote from Draft to Sent under the rule configuration of
\* Init: editing, approval, conversion to a client, proposal and sending.
QuotesOpened == {1}

\* the form the quote editor posts to edit_quote
EditForms ==
    { [currency |-> "inr", is_gst_applicable |-> TRUE, discount |-> Rupees(1),
       billing_state |-> "Kerala", item |-> 1, qty |-> Units(3), rate |-> Rupees(2),
       billing_cycle |-> "weekly"] }

\* the forms posted to convert_quote_to_client
ConvertForms ==
    { [company_name |-> "Acme", branch_location |-> "HQ", contact_name |-> n,
       final_payment_date |-> d, state |-> st] :
         n \in {"", "Asha"}, d \in {"", "2026-01-31"}, st \in {"", "Kerala"} }

Methods == {"GET", "POST"}
ProposalTerms == {"", "Net 30"}

NextQuote ==
    \/ \E u \in Users, q \in QuotesOpened : request_approval(u, q) /\ UNCHANGED routing
    \/ \E u \in Users, a \in 1 .. (nextApprovalId - 1), d \in Decisions, m \in Remarks :
          act_on_approval(u, a, d, m) /\ UNCHANGED routing
    \/ \E u \in Users, q \in QuotesOpened, i \in 1 .. MaxItems, data \in AutosavePayloads :
          autosave_item(u, q, i, data) /\ UNCHANGED routing
    \/ \E u \in Users, q \in QuotesOpened, method \in Methods, form \in EditForms :
          edit_quote(u, q, method, form) /\ UNCHANGED routing
    \/ \E u \in Users, q \in QuotesOpened : add_item(u, q) /\ UNCHANGED routing
    \/ \E u \in Users, q \in QuotesOpened : view_quote(u, q) /\ UNCHANGED routing
    \/ \E u \in Users, q \in QuotesOpened, form \in ConvertForms : convert_quote_to_client(u, q, form) /\ UNCHANGED routing
    \/ \E u \in Users, q \in QuotesOpened, method \in Methods, terms \in ProposalTerms :
          proposal_builder(u, q, method, terms) /\ UNCHANGED routing
    \/ \E u \in Users, q \in QuotesOpened : download_proposal(u, q) /\ UNCHANGED routing
    \/ \E u \in Users, q \in QuotesOpened : mark_sent(u, q) /\ UNCHANGED routing

SpecQuote == Init /\ [][NextQuote]_vars

\* ---------------------------------------------------------------- concurrent requests
\* Two workers serve request_approval and act_on_approval on quote 1 side by
\* side, their commits interleaved in any order; the editor and the rule
\* master act in between.
unrouted == <<config, tenants, g, engines, request, thread, parked>>

NextRace ==
    \/ \E w \in Workers, u \in Users, q \in QuotesOpened :
          request_approval_recalc(w, u, q) /\ UNCHANGED unrouted
    \/ \E w \in Workers : request_approval_delete(w) /\ UNCHANGED unrouted
    \/ \E w \in Workers : request_approval_create(w) /\ UNCHANGED unrouted
    \/ \E w \in Workers : request_approval_first(w) /\ UNCHANGED unrouted
    \/ \E w \in Workers : request_approval_status(w) /\ UNCHANGED unrouted
    \/ \E w \in Workers, u \in Users, a \in 1 .. (nextApprovalId - 1), d \in Decisions, m \in Remarks :
          act_on_approval_read(w, u, a, d, m) /\ UNCHANGED unrouted
    \/ \E w \in Workers : act_on_approval_decide(w) /\ UNCHANGED unrouted
    \/ \E w \in Workers : act_on_approval_cancel(w) /\ UNCHANGED unrouted
    \/ \E w \in Workers : act_on_approval_rejected(w) /\ UNCHANGED unrouted
    \/ \E w \in Workers : act_on_approval_activate(w) /\ UNCHANGED unrouted
    \/ \E w \in Workers : act_on_approval_count(w) /\ UNCHANGED unrouted
    \/ \E u \in Users, q \in QuotesOpened, data \in AutosavePayloads :
          autosave_item(u, q, 1, data) /\ UNCHANGED routing

\* the rule master has left rule 2 active or not
InitRace ==
    /\ quotes = [q \in Quotes |-> IF q = 1 THEN NewQuote(3, 3) ELSE NewQuote(1, 1)]
    /\ items = [q \in Quotes |-> <<NewItem>>]
    /\ \E act \in BOOLEAN :
          rules = [r \in RuleIds |->
                     IF r = 1
                     THEN [min_amount |-> Rupees(1), max_amount |-> NoMax, sort_order |-> 2, is_active |-> TRUE]
                     ELSE [min_amount |-> Rupees(10), max_amount |-> Rupees(50), sort_order |-> 1,
                           is_active |-> act]]
    /\ steps = [s \in StepIds |->
                  CASE s = 1 -> step_add(1, 1, "Manager", None)
                    [] s = 2 -> step_add(2, 2, "", 2)
                    [] OTHER -> step_add(2, 1, "Manager", 2)]
    /\ approvals = << >>
    /\ nextApprovalId = 1
    /\ response = [handler |-> "", flash |-> "", endpoint |-> ""]
    /\ InitRouting

SpecRace == InitRace /\ [][NextRace]_vars

\* ---------------------------------------------------------------- the rule matcher alone
\* _matching_rules applied to a total under any rule configuration the rule
\* master accepts (min_amount <= max_amount when max_amount is set).
RuleRows ==
    { row \in [min_amount : {Rupees(1), Rupees(10)},
               max_amount : {NoMax, Rupees(10), Rupees(50)},
               sort_order : {1, 2},
               is_active : BOOLEAN] :
        row.max_amount = NoMax \/ row.min_amount <= row.max_amount }

\* totals on, just below and just above the bounds of the rules
Totals ==
    {0, Rupees(1) - Paise(1), Rupees(1), Rupees(10) - Paise(1), Rupees(10), Rupees(10) + Paise(1),
     Rupees(50), Rupees(50) + Paise(1)}

InitMatcher ==
    /\ rules \in [RuleIds -> RuleRows]
    /\ quotes = [q \in Quotes |-> NewQuote(1, 1)]
    /\ items = [q \in Quotes |-> <<NewItem>>]
    /\ steps = [s \in StepIds |-> step_add(1, s, "Manager", None)]
    /\ approvals = << >>
    /\ nextApprovalId = 1
    /\ response = [handler |-> "", flash |-> "", endpoint |-> ""]
    /\ InitRouting

\* a call _matching_rules(total_amount); the response holds what it returned
matching_rules_call(total_amount) ==
    /\ response' = [handler |-> "_matching_rules", flash |-> "", endpoint |-> "",
                    total_amount |-> total_amount, matched |-> _matching_rules(total_amount)]
    /\ UNCHANGED <<quotes, items, rules, steps, approvals, nextApprovalId>>

NextMatcher ==
    /\ \E total_amount \in Totals : matching_rules_call(total_amount)
    /\ UNCHANGED routing

SpecMatcher == InitMatcher /\ [][NextMatcher]_vars

\* ---------------------------------------------------------------- the recalculation alone
\* _recalc_quote applied to a quote object whose items, discount, currency and
\* jurisdiction are drawn from the values the columns can hold; the totals the
\* object carries before the first call are stale.
ItemInputs ==
    [qty : {Units(1), Units(1) \div 2},
     rate : {Paise(1), Paise(50), Rupees(1)},
     billing_cycle : {"", "weekly", "annual", "MONTHLY", "HALF_YEARLY", "ONETIME"},
     amount : {0}]

ItemLists ==
    {<<it>> : it \in ItemInputs}
    \cup {<<it, [qty |-> Units(1), rate |-> Paise(50), billing_cycle |-> "ANNUAL", amount |-> 0]>> :
             it \in ItemInputs}

\* (company_branch_id 2 is a company branch without a state)
QuoteInputs ==
    { [NewQuote(1, 1) EXCEPT !.discount = in.discount, !.currency = in.currency,
                             !.is_gst_applicable = in.is_gst_applicable,
                             !.company_branch_id = in.company_branch_id,
                             !.branch_id = in.branch[1], !.branch_state = in.branch[2],
                             !.billing_state = in.billing_state] :
        in \in [discount : {0, Paise(25), Rupees(100)},
                currency : {"INR", "usd", ""},
                is_gst_applicable : BOOLEAN,
                company_branch_id : {None, 1, 2},
                branch : {<<None, "">>, <<1, "">>, <<1, "Kerala">>, <<1, "KARNATAKA">>},
                billing_state : {"", "Karnataka", "Kerala"}] }

InitRecalc ==
    /\ \E quote \in QuoteInputs :
          quotes = [q \in Quotes |-> IF q = 1 THEN quote ELSE NewQuote(1, 1)]
    /\ \E its \in ItemLists :
          items = [q \in Quotes |-> IF q = 1 THEN its ELSE <<NewItem>>]
    /\ rules = [r \in RuleIds |->
                  [min_amount |-> Rupees(1), max_amount |-> NoMax, sort_order |-> r, is_active |-> TRUE]]
    /\ steps = [s \in StepIds |-> step_add(1, s, "Manager", None)]
    /\ approvals = << >>
    /\ nextApprovalId = 1
    /\ response = [handler |-> "", flash |-> "", endpoint |-> "", runs |-> 0]
    /\ InitRouting

\* a call _recalc_quote(quote) on the quote object, nothing committed; the
\* response counts the calls made in a row, up to two
recalc_quote_call(q) ==
    /\ items' = [items EXCEPT ![q] = RecalcItems(items[q])]
    /\ quotes' = [quotes EXCEPT ![q] = _recalc_quote(quotes[q], items[q])]
    /\ response' = [handler |-> "_recalc_quote", flash |-> "", endpoint |-> "",
                    runs |-> IF response.runs = 0 THEN 1 ELSE 2]
    /\ UNCHANGED <<rules, steps, approvals, nextApprovalId>>

NextRecalc ==
    /\ recalc_quote_call(1)
    /\ UNCHANGED routing

SpecRecalc == InitRecalc /\ [][NextRecalc]_vars

\* ---------------------------------------------------------------- tenant routing alone
\* Requests resolved to tenants, the registry edited between them, and the
\* session operations of the running request.
InitTenant ==
    /\ config \in [BASE_DOMAIN : {<<"x", ".", "i", "o">>}, DEFAULT_TENANT_SLUG : {<< >>, <<"a">>}]
    /\ tenants = [t \in TenantIds |->
                    IF t = 1 THEN [slug |-> <<"a">>, db_uri |-> "mysql://db/tenant_a", is_active |-> TRUE]
                    ELSE [slug |-> <<"b">>, db_uri |-> "mysql://db/tenant_b", is_active |-> TRUE]]
    /\ g = [has_tenant_engine |-> FALSE, tenant_engine |-> NoEngine]
    /\ engines = << >>
    /\ request = [host |-> << >>]
    /\ thread = 1
    /\ parked = [t \in Threads |-> NoContext]
    /\ frames = [w \in Workers |-> NoFrame]
    /\ quotes = [q \in Quotes |-> NewQuote(1, 1)]
    /\ items = [q \in Quotes |-> <<NewItem>>]
    /\ rules = [r \in RuleIds |->
                  [min_amount |-> Rupees(1), max_amount |-> NoMax, sort_order |-> r, is_active |-> TRUE]]
    /\ steps = [s \in StepIds |-> step_add(1, s, "Manager", None)]
    /\ approvals = << >>
    /\ nextApprovalId = 1
    /\ response = [handler |-> "", flash |-> "", endpoint |-> ""]

NextTenant ==
    \/ \E request_host \in Hosts, request_path \in Paths :
          bind_tenant_database(request_host, request_path)
    \/ \E mapper \in Mappers : session_operation(mapper)
    \/ \E tenant_id \in TenantIds, form \in TenantForms : tenants_edit(tenant_id, form)

SpecTenant == InitTenant /\ [][NextTenant]_vars

\* ---------------------------------------------------------------- two tenants served at once
\* Two threads serve requests of the two active tenants and of the platform,
\* the scheduler switching between them at any point.
TenantHosts ==
    { <<"a", ".", "x", ".", "i", "o">>,
      <<"b", ".", "x", ".", "i", "o", ":", "8", "0", "0", "0">> }

TenantPaths ==
    { <<"/", "p", "l", "a", "t", "f", "o", "r", "m", "/", "t", "e", "n", "a", "n", "t", "s">>,
      <<"/", "q", "u", "o", "t", "e", "s", "/", "1">> }

NextIsolation ==
    \/ \E request_host \in TenantHosts, request_path \in TenantPaths :
          bind_tenant_database(request_host, request_path)
    \/ \E mapper \in Mappers : session_operation(mapper)
    \/ \E t \in Threads : switch_thread(t)

SpecIsolation == InitTenant /\ [][NextIsolation]_vars

\* ---------------------------------------------------------------- properties
Statuses == {"WAITING", "PENDING", "APPROVED", "REJECTED", "CANCELLED"}

TypeOK ==
    /\ \A a \in DOMAIN approvals : approvals[a].status \in Statuses
    /\ DOMAIN approvals \subseteq 1 .. MaxApprovalId
    /\ nextApprovalId \in 1 .. (MaxApprovalId + 1)

\* The rules a total matches, as the rule matcher's contract states them.
MatchedRuleSet(total) ==
    {r \in RuleIds : /\ rules[r].is_active
                     /\ rules[r].min_amount <= total
                     /\ (rules[r].max_amount = NoMax \/ total <= rules[r].max_amount)}

StepsOfRule(r) == {s \in StepIds : steps[s].rule_id = r /\ steps[s].is_active}

\* the total request_approval works with
RecalculatedTotal(q) == _recalc_quote(quotes[q], items[q]).total

\* step s1 comes before step s2 in the chain: by (rule sort_order, rule id),
\* then by (step step_order, step id)
ChainBefore(s1, s2) ==
    LET r1 == steps[s1].rule_id
        r2 == steps[s2].rule_id
    IN  \/ rules[r1].sort_order < rules[r2].sort_order
        \/ rules[r1].sort_order = rules[r2].sort_order /\ r1 < r2
        \/ r1 = r2 /\ steps[s1].step_order < steps[s2].step_order
        \/ r1 = r2 /\ steps[s1].step_order = steps[s2].step_order /\ s1 < s2

\* request_approval(u, q) is a call the handler does not refuse as forbidden
\* or locked
Requestable(u, q) ==
    /\ _can_access_quote(u, q)
    /\ quotes[q].status \notin LockedStatuses

\* C1: request_approval on an unlocked quote whose recalculated total matches
\* one or more active rules, each with an active step, leaves the quote with
\* exactly one row per active step of the matched rules, numbered 1..N in the
\* order (rule sort_order, rule id), (step step_order, step id), each row with
\* the approver role and user of its step, row 1 PENDING, the others WAITING,
\* and the quote Pending Approval.
C1_RequestBuildsChain ==
    [][\A u \in Users, q \in Quotes :
        LET matched == MatchedRuleSet(RecalculatedTotal(q))
            chain == UNION {StepsOfRule(r) : r \in matched}
            rows == QuoteApprovals(approvals', q)
        IN  ( /\ response'.handler = "request_approval"
              /\ Requestable(u, q)
              /\ matched # {}
              /\ \A r \in matched : StepsOfRule(r) # {}
              /\ request_approval(u, q) )
            => /\ quotes'[q].status = "Pending Approval"
               /\ Cardinality(rows) = Cardinality(chain)
               /\ \A s \in chain : \E a \in rows : approvals'[a].rule_step_id = s
               /\ {approvals'[a].step_order : a \in rows} = 1 .. Cardinality(chain)
               /\ \A a \in rows :
                     LET s == approvals'[a].rule_step_id
                     IN  /\ approvals'[a].rule_id = steps[s].rule_id
                         /\ approvals'[a].approver_role = steps[s].approver_role
                         /\ approvals'[a].approver_user_id = steps[s].approver_user_id
                         /\ approvals'[a].status =
                               IF approvals'[a].step_order = 1 THEN "PENDING" ELSE "WAITING"
               /\ \A a, b \in rows :
                     ChainBefore(approvals'[a].rule_step_id, approvals'[b].rule_step_id)
                        => approvals'[a].step_order < approvals'[b].step_order
    ]_vars

\* C1 witness: a request has just started a chain of three rows over two
\* matched rules
C1_Witness ==
    /\ response.flash = "Approval requested (Sequential flow started)"
    /\ \E q \in Quotes :
          /\ quotes[q].status = "Pending Approval"
          /\ Cardinality(QuoteApprovals(approvals, q)) = 3
          /\ Cardinality({approvals[a].rule_id : a \in QuoteApprovals(approvals, q)}) = 2
          /\ \E a \in QuoteApprovals(approvals, q) :
                approvals[a].step_order = 1 /\ approvals[a].status = "PENDING"

\* C2: each quote has at most one PENDING row, and that row has the lowest
\* step_order among the quote's WAITING and PENDING rows.
C2_OnePendingLowest ==
    \A q \in Quotes :
        LET rows == QuoteApprovals(approvals, q)
            pending == {a \in rows : approvals[a].status = "PENDING"}
            open == {a \in rows : approvals[a].status \in {"WAITING", "PENDING"}}
        IN  /\ Cardinality(pending) <= 1
            /\ \A a \in pending : \A b \in open :
                  approvals[a].step_order <= approvals[b].step_order

\* C2 witness: a chain in progress, its first row approved, the second pending
\* and a third still waiting
C2_Witness ==
    \E q \in Quotes : \E a, b, c \in QuoteApprovals(approvals, q) :
        /\ approvals[a].status = "APPROVED"
        /\ approvals[b].status = "PENDING"
        /\ approvals[c].status = "WAITING"
        /\ approvals[a].step_order < approvals[b].step_order
        /\ approvals[b].step_order < approvals[c].step_order

\* The actor is the approver the row designates: the named user, or, when the
\* row names no user, anyone holding the named role.
Authorized(row, u) ==
    \/ row.approver_user_id = u
    \/ row.approver_user_id = None /\ row.approver_role = RoleName[u]

\* the WAITING row of quote q that is next in line: lowest (step_order, id)
NextInLine(q) ==
    LET waiting == {b \in QuoteApprovals(approvals, q) : approvals[b].status = "WAITING"}
    IN  {b \in waiting : \A c \in waiting :
            \/ approvals[b].step_order < approvals[c].step_order
            \/ approvals[b].step_order = approvals[c].step_order /\ b <= c}

\* user u may act on PENDING row a of a quote they can access
MayDecide(u, a) ==
    /\ approvals[a].status = "PENDING"
    /\ _can_access_quote(u, approvals[a].quote_id)
    /\ Authorized(approvals[a], u)

\* C3: an authorized APPROVE on the PENDING row of a quote sets that row to
\* APPROVED with actor, remark and timestamp recorded, turns the WAITING row
\* with the lowest step_order (if any) into PENDING and leaves the status of
\* every other row of the quote and every row of every other quote unchanged.
C3_ApproveFrame ==
    [][response'.handler = "act_on_approval" =>
        \A u \in Users, a \in DOMAIN approvals, m \in Remarks :
            (MayDecide(u, a) /\ act_on_approval(u, a, "APPROVE", m))
            => LET next == NextInLine(approvals[a].quote_id)
               IN  /\ DOMAIN approvals' = DOMAIN approvals
                   /\ approvals'[a].status = "APPROVED"
                   /\ approvals'[a].acted_by_id = u
                   /\ approvals'[a].remark = m
                   /\ approvals'[a].acted_at # None
                   /\ \A b \in next : approvals'[b].status = "PENDING"
                   /\ \A b \in DOMAIN approvals \ ({a} \cup next) :
                         approvals'[b].status = approvals[b].status
    ]_vars

\* C3 witness: a step was just approved and the next one activated, while
\* another quote holds an approval row of its own
C3_Witness ==
    /\ response = Flash("act_on_approval", "", "quotes.approvals_inbox")
    /\ \E q1, q2 \in Quotes :
          /\ q1 # q2
          /\ QuoteApprovals(approvals, q2) # {}
          /\ \E a, b \in QuoteApprovals(approvals, q1) :
                /\ approvals[a].status = "APPROVED"
                /\ approvals[a].acted_by_id # None
                /\ approvals[a].remark = "ok"
                /\ approvals[a].acted_at # None
                /\ approvals[b].status = "PENDING"
                /\ approvals[b].step_order = approvals[a].step_order + 1

\* C4: an authorized APPROVE sets the quote status to Approved if and only if
\* afterwards the quote has no WAITING and no PENDING row; otherwise the quote
\* status stays Pending Approval.
C4_ApprovedIffComplete ==
    [][response'.handler = "act_on_approval" =>
        \A u \in Users, a \in DOMAIN approvals, m \in Remarks :
            (MayDecide(u, a) /\ act_on_approval(u, a, "APPROVE", m))
            => LET q == approvals[a].quote_id
                   open == {b \in QuoteApprovals(approvals', q) :
                               approvals'[b].status \in {"WAITING", "PENDING"}}
               IN  /\ quotes'[q].status = "Approved" <=> open = {}
                   /\ open # {} => /\ quotes[q].status = "Pending Approval"
                                   /\ quotes'[q].status = "Pending Approval"
    ]_vars

\* C4 witness: the last step of a chain of several steps was just approved
C4_Witness ==
    /\ response.flash = "All approvals completed. Quote Approved"
    /\ \E q \in Quotes :
          /\ quotes[q].status = "Approved"
          /\ Cardinality(QuoteApprovals(approvals, q)) >= 2
          /\ \A a \in QuoteApprovals(approvals, q) : approvals[a].status = "APPROVED"

\* everything the handlers persist
database == <<quotes, items, rules, steps, approvals, nextApprovalId>>

\* C5: an authorized REJECT on the PENDING row of a quote sets that row to
\* REJECTED, every other WAITING or PENDING row of the quote to CANCELLED and
\* the quote status to Rejected; and no act_on_approval call on a row of a
\* chain that holds a REJECTED row changes any state (a step that changed
\* the database is not such a call).
C5_RejectCascades ==
    [][response'.handler = "act_on_approval" =>
        /\ \A u \in Users, a \in DOMAIN approvals, m \in Remarks :
              (MayDecide(u, a) /\ act_on_approval(u, a, "REJECT", m))
              => LET q == approvals[a].quote_id
                 IN  /\ approvals'[a].status = "REJECTED"
                     /\ \A b \in QuoteApprovals(approvals, q) \ {a} :
                           approvals[b].status \in {"WAITING", "PENDING"}
                              => approvals'[b].status = "CANCELLED"
                     /\ quotes'[q].status = "Rejected"
        /\ database' # database
              => \A u \in Users, a \in DOMAIN approvals, d \in Decisions, m \in Remarks :
                    (\E b \in QuoteApprovals(approvals, approvals[a].quote_id) :
                        approvals[b].status = "REJECTED")
                    => ~act_on_approval(u, a, d, m)
    ]_vars

\* C5 witness: an act on a row of a rejected chain (one row REJECTED, the
\* rest CANCELLED) was just turned down
C5_Witness ==
    /\ response = Flash("act_on_approval", "This approval is not pending.", "quotes.approvals_inbox")
    /\ \E q \in Quotes :
          /\ quotes[q].status = "Rejected"
          /\ DOMAIN approvals = QuoteApprovals(approvals, q)
          /\ \E a, b \in DOMAIN approvals :
                approvals[a].status = "REJECTED" /\ approvals[b].status = "CANCELLED"

\* C6: an act_on_approval call whose target row is not PENDING, or whose actor
\* matches neither the row's approver_user_id nor its approver_role, or whose
\* decision is neither APPROVE nor REJECT, changes no row and no quote status.
\* Stated contrapositively: a step that changed a row or a quote status is
\* not such a call.
C6_RefusedActChangesNothing ==
    [][ ( /\ response'.handler = "act_on_approval"
          /\ \/ approvals' # approvals
             \/ \E q \in Quotes : quotes'[q].status # quotes[q].status )
        => \A u \in Users, a \in DOMAIN approvals, d \in Decisions, m \in Remarks :
              ( \/ approvals[a].status # "PENDING"
                \/ approvals[a].approver_user_id # u /\ approvals[a].approver_role # RoleName[u]
                \/ d \notin {"APPROVE", "REJECT"} )
              => ~act_on_approval(u, a, d, m)
    ]_vars

\* C6 witness: an actor who is not the row's approver was just turned down
\* while a row is PENDING
C6_Witness ==
    /\ response.flash = "You are not allowed to approve this step."
    /\ \E a \in DOMAIN approvals : approvals[a].status = "PENDING"

\* C7: an actor changes a PENDING row only if the row's approver_user_id is
\* the actor or the row names no user and the actor's role is the row's
\* approver_role.
C7_OnlyDesignatedApproverActs ==
    [][response'.handler = "act_on_approval" =>
        \A u \in Users, a \in DOMAIN approvals, d \in Decisions, m \in Remarks :
            ( /\ approvals[a].status = "PENDING"
              /\ act_on_approval(u, a, d, m)
              /\ approvals' # approvals )
            => Authorized(approvals[a], u)
    ]_vars

\* C8: request_approval on an unlocked quote whose recalculated total matches
\* no active rule makes the quote Approved, creates no row, and makes no row
\* of the quote PENDING.
C8_NoRuleAutoApproves ==
    [][response'.handler = "request_approval" =>
        \A u \in Users, q \in Quotes :
            ( /\ Requestable(u, q)
              /\ MatchedRuleSet(RecalculatedTotal(q)) = {}
              /\ request_approval(u, q) )
            => /\ quotes'[q].status = "Approved"
               /\ DOMAIN approvals' \subseteq DOMAIN approvals
               /\ \A a \in QuoteApprovals(approvals', q) :
                     approvals'[a].status = "PENDING" => approvals[a].status = "PENDING"
    ]_vars

\* C8 witness: a quote was just auto-approved and has no approval row
C8_Witness ==
    /\ response.flash = "No approval required for this amount. Quote auto-approved"
    /\ \E q \in Quotes :
          quotes[q].status = "Approved" /\ QuoteApprovals(approvals, q) = {}

\* C9: when request_approval is accepted for a quote that has rows from an
\* earlier request, every earlier row is deleted and the quote's rows
\* afterwards are exactly the fresh set for the current rule configuration,
\* also when no rule matches any more.
C9_ReRequestReplacesRows ==
    [][response'.handler = "request_approval" =>
        \A u \in Users, q \in Quotes :
            LET matched == MatchedRuleSet(RecalculatedTotal(q))
                chain == UNION {StepsOfRule(r) : r \in matched}
                earlier == QuoteApprovals(approvals, q)
                rows == QuoteApprovals(approvals', q)
            IN  ( /\ Requestable(u, q)
                  /\ earlier # {}
                  /\ \A r \in matched : StepsOfRule(r) # {}
                  /\ request_approval(u, q) )
                => /\ earlier \cap DOMAIN approvals' = {}
                   /\ {approvals'[a].rule_step_id : a \in rows} = chain
                   /\ Cardinality(rows) = Cardinality(chain)
    ]_vars

\* C10: if a rule matched by request_approval has no active step, the call
\* leaves the quote status and the quote's persisted approval rows as they
\* were.
C10_ZeroStepRuleFailsClosed ==
    [][response'.handler = "request_approval" =>
        \A u \in Users, q \in Quotes :
            ( /\ Requestable(u, q)
              /\ \E r \in MatchedRuleSet(RecalculatedTotal(q)) : StepsOfRule(r) = {}
              /\ request_approval(u, q) )
            => /\ quotes'[q].status = quotes[q].status
               /\ approvals' = approvals
    ]_vars

\* the statuses in which a quote is locked
Locked(q) == quotes[q].status \in {"Pending Approval", "Approved", "Sent", "Selected"}

\* C11: request_approval on a quote that is Pending Approval, Approved, Sent
\* or Selected is refused: the quote status is unchanged and no QuoteApproval
\* row of the quote is created, deleted or changed.
C11_LockedRequestRefused ==
    [][response'.handler = "request_approval" =>
        \A u \in Users, q \in Quotes :
            (Locked(q) /\ request_approval(u, q))
            => /\ quotes'[q].status = quotes[q].status
               /\ QuoteApprovals(approvals', q) = QuoteApprovals(approvals, q)
               /\ \A a \in QuoteApprovals(approvals, q) : approvals'[a] = approvals[a]
    ]_vars

\* C11 witness: a request was just refused on a quote under approval that
\* holds approval rows
C11_Witness ==
    /\ response.flash = "Quote is locked. You cannot request approval in current status."
    /\ \E q \in Quotes :
          /\ quotes[q].status = "Pending Approval"
          /\ QuoteApprovals(approvals, q) # {}

\* the stored totals of a quote
StoredTotals(q) ==
    <<quotes[q].subtotal, quotes[q].tax, quotes[q].cgst, quotes[q].sgst, quotes[q].igst,
      quotes[q].total>>

\* C12: while a quote stays in Pending Approval, Approved, Selected or Sent,
\* its stored subtotal, tax, cgst, sgst, igst and total do not change, whatever
\* operation runs.
C12_LockedTotalsFrozen ==
    [][\A q \in Quotes : (Locked(q) /\ Locked(q)') => StoredTotals(q)' = StoredTotals(q)]_vars

\* the item fields and quote fields the quote editor writes
Edited(q) ==
    <<[i \in DOMAIN items[q] |->
          <<items[q][i].qty, items[q][i].rate, items[q][i].billing_cycle>>],
      quotes[q].discount, quotes[q].currency, quotes[q].billing_state,
      quotes[q].is_gst_applicable>>

\* C13: edit_quote (POST), add_item and autosave_item on a quote that is
\* Pending Approval, Approved, Sent or Selected change no item (count, qty,
\* rate, billing cycle) and no quote field (discount, currency, billing state,
\* GST flag).
C13_LockedQuoteNotEdited ==
    [][response'.handler \in {"edit_quote", "add_item", "autosave_item"} =>
        \A u \in Users, q \in Quotes :
            ( /\ Locked(q)
              /\ \/ \E form \in EditForms : edit_quote(u, q, "POST", form)
                 \/ add_item(u, q)
                 \/ \E i \in 1 .. MaxItems, data \in AutosavePayloads : autosave_item(u, q, i, data) )
            => Edited(q)' = Edited(q)
    ]_vars

\* C13 witness: an edit was just refused on a quote selected by the client
\* whose fields are not the ones the refused form carries
C13_Witness ==
    /\ response = Flash("edit_quote", "Quote is locked in current status.", "quotes.view_quote")
    /\ \E q \in QuotesOpened :
          /\ quotes[q].status = "Selected"
          /\ quotes[q].billing_state = "Karnataka"
          /\ Len(items[q]) = MaxItems

\* C14: the rule matcher returns exactly the active rules with
\* min_amount <= total and (max_amount null or total <= max_amount), both
\* bounds inclusive, each once, ordered by sort_order ascending then id
\* ascending; inactive rules are never returned.
C14_MatcherContract ==
    response.handler = "_matching_rules"
    => LET m == response.matched
           t == response.total_amount
       IN  /\ {m[i] : i \in DOMAIN m} =
                 {r \in RuleIds : /\ rules[r].is_active
                                  /\ rules[r].min_amount <= t
                                  /\ (rules[r].max_amount = NoMax \/ t <= rules[r].max_amount)}
           /\ \A i, j \in DOMAIN m :
                 i < j => \/ rules[m[i]].sort_order < rules[m[j]].sort_order
                          \/ rules[m[i]].sort_order = rules[m[j]].sort_order /\ m[i] < m[j]

\* C14 witness: a total equal to the upper bound of one rule and to the lower
\* bound of the other matched both, the rule with the higher id first
C14_Witness ==
    /\ response.handler = "_matching_rules"
    /\ Len(response.matched) = 2
    /\ response.matched[1] > response.matched[2]
    /\ response.total_amount = rules[response.matched[1]].max_amount
    /\ response.total_amount = rules[response.matched[2]].min_amount
    /\ \E r \in RuleIds : rules[r].max_amount # NoMax

\* what the recalculation computes: the item amounts and the quote totals
Computed(q) ==
    <<[i \in DOMAIN items[q] |-> items[q][i].amount],
      quotes[q].subtotal, quotes[q].cgst, quotes[q].sgst, quotes[q].igst, quotes[q].tax,
      quotes[q].total, quotes[q].total_amount>>

\* C15: a second recalculation in a row, nothing changed in between, yields
\* the same item amounts, subtotal, cgst, sgst, igst, tax, total and
\* total_amount as the first.
C15_RecalcIdempotent ==
    [][(response.handler = "_recalc_quote" /\ recalc_quote_call(1))
       => Computed(1)' = Computed(1)]_vars

\* C15 witness: two recalculations in a row of a taxed quote with two items
C15_Witness ==
    /\ response.handler = "_recalc_quote"
    /\ response.runs = 2
    /\ Len(items[1]) = 2
    /\ quotes[1].subtotal > 0
    /\ quotes[1].tax > 0

CycleOfTag(tag) ==
    CASE tag \in {"annual", "ANNUAL"} -> "ANNUAL"
      [] tag \in {"half_yearly", "HALF_YEARLY"} -> "HALF_YEARLY"
      [] tag \in {"monthly", "MONTHLY"} -> "MONTHLY"
      [] OTHER -> "ONETIME"

MultiplierOf(cycle) ==
    CASE cycle = "HALF_YEARLY" -> 6 [] cycle = "ANNUAL" -> 12 [] OTHER -> 1

StateSpellings == {{"karnataka", "Karnataka", "KARNATAKA"}, {"kerala", "Kerala", "KERALA"}}

SameStateIgnoringCase(a, b) == \E names \in StateSpellings : a \in names /\ b \in names

\* the state of the quote's company branch and of its customer, "" when missing
CompanyStateOf(q) ==
    IF q.company_branch_id = None THEN "" ELSE company_branch_state(q.company_branch_id)

CustomerStateOf(q) ==
    IF q.branch_id # None /\ q.branch_state # "" THEN q.branch_state ELSE q.billing_state

TaxableBase(q) == IF q.subtotal - q.discount > 0 THEN q.subtotal - q.discount ELSE 0

C19_NoTaxCases ==
    LET q == quotes[1]
    IN  response.handler = "_recalc_quote"
        => /\ ( \/ q.currency \in {"USD", "usd"}
                \/ CompanyStateOf(q) = ""
                \/ (q.branch_id = None \/ q.branch_state = "") /\ q.billing_state = ""
                \/ ~q.is_gst_applicable )
              => q.cgst = 0 /\ q.sgst = 0 /\ q.igst = 0
           /\ ( /\ q.tax > 0
                /\ q.branch_id # None
                /\ q.branch_state # "" )
              => (q.igst = 0 <=> SameStateIgnoringCase(CompanyStateOf(q), q.branch_state))

\* C19 witness: a recalculated quote in a foreign currency, flagged for GST,
\* both states known and a positive taxable base, carries no tax
C19_Witness ==
    /\ response.handler = "_recalc_quote"
    /\ quotes[1].currency = "usd"
    /\ quotes[1].is_gst_applicable
    /\ CompanyStateOf(quotes[1]) # ""
    /\ quotes[1].branch_state = "Kerala"
    /\ quotes[1].billing_state = "Karnataka"
    /\ TaxableBase(quotes[1]) > 0
    /\ quotes[1].tax = 0

\* the models kept in the platform store
PlatformModels == {"Tenant", "PlatformAdmin"}

\* C20: the bind a session operation gets is the platform engine when the
\* model is bound to the platform store, whether or not the request has a
\* tenant engine; otherwise the request's tenant engine when one is set;
\* otherwise the process default bind.
C20_BindChoice ==
    response.handler = "get_bind"
    => response.bind =
          IF response.mapper.class_ \in PlatformModels THEN PlatformEngine
          ELSE IF g.has_tenant_engine /\ g.tenant_engine.serial > 0 THEN g.tenant_engine
          ELSE DefaultEngine

\* C20 witness: a request resolved to tenant b reads a platform model and is
\* given the platform engine
C20_Witness ==
    /\ response.handler = "get_bind"
    /\ response.mapper.class_ = "Tenant"
    /\ g.has_tenant_engine
    /\ g.tenant_engine.url = "mysql://db/tenant_b"
    /\ response.bind = PlatformEngine

\* the hosts each tenant is served under
HostsOfTenant(T) ==
    IF T = 1 THEN {<<"a", ".", "x", ".", "i", "o">>}
    ELSE {<<"b", ".", "x", ".", "i", "o", ":", "8", "0", "0", "0">>}

\* the request of the running thread was resolved to tenant T
ResolvedTo(T) ==
    /\ request.host \in HostsOfTenant(T)
    /\ g.has_tenant_engine
    /\ g.tenant_engine.serial > 0

\* C21: with two active tenants of distinct URIs and requests of both
\* interleaved, a read or write of a tenant model in a request resolved to one
\* tenant goes to an engine for that tenant's URI, never to one for the other
\* tenant's URI, and a read or write of a platform-bound model goes through no
\* tenant engine.
C21_TenantIsolation ==
    response.handler = "get_bind"
    => /\ \A T \in TenantIds, U \in TenantIds :
             ( /\ T # U
               /\ ResolvedTo(T)
               /\ response.mapper.class_ \in Models \ PlatformModels )
             => /\ response.bind.url = tenants[T].db_uri
                /\ response.bind.serial > 0
                /\ response.bind.url # tenants[U].db_uri
       /\ response.mapper.class_ \in PlatformModels
          => /\ response.bind.serial = 0
             /\ \A T \in TenantIds : response.bind.url # tenants[T].db_uri

\* C21 witness: a request of tenant b writes a quote through tenant b's engine
\* while a request of tenant a, resolved before it, waits on the other thread
C21_Witness ==
    /\ response.handler = "get_bind"
    /\ response.mapper.class_ = "Quote"
    /\ ResolvedTo(2)
    /\ response.bind.url = "mysql://db/tenant_b"
    /\ \E t \in Threads :
          /\ t # thread
          /\ parked[t].g.tenant_engine.url = "mysql://db/tenant_a"
          /\ parked[t].g.tenant_engine.serial = 1

\* the paths under the platform or the static prefix
BypassPaths ==
    { <<"/", "p", "l", "a", "t", "f", "o", "r", "m", "/", "t", "e", "n", "a", "n", "t", "s">>,
      <<"/", "s", "t", "a", "t", "i", "c", "/", "a", "p", "p", ".", "c", "s", "s">> }

\* the slug a request is looked up under: the host's when it gives one, the
\* configured default otherwise (empty when there is neither)
CandidateSlug(host) ==
    IF _get_subdomain_slug(host) # << >> THEN _get_subdomain_slug(host)
    ELSE config.DEFAULT_TENANT_SLUG

LocalHost == <<"l", "o", "c", "a", "l", "h", "o", "s", "t">>

IsLocal(host) ==
    \/ host = LocalHost
    \/ EndsWith(host, <<".">> \o LocalHost)
    \/ StartsWith(host, <<"1", "2", "7", ".">>)

\* C23: the slug taken from the host of a request is none for localhost, a
\* subdomain of localhost or a loopback literal (port stripped); it is the
\* label L when the host is L, a dot and the base domain, L without a dot; and
\* it is none when the host ends with the base domain's characters without
\* the dot before them, or when what precedes the dot and the base domain
\* holds further dots.
C23_HostSlug ==
    request.host # << >>
    => LET host == BeforeColon(request.host)
           base == config.BASE_DOMAIN
           slug == _get_subdomain_slug(request.host)
           label == SubSeq(host, 1, Len(host) - (Len(base) + 1))
       IN  /\ IsLocal(host) => slug = << >>
           /\ ( /\ ~IsLocal(host)
                /\ EndsWith(host, <<".">> \o base)
                /\ label # << >>
                /\ Dots(label) = {} )
              => slug = label
           /\ (EndsWith(host, base) /\ ~EndsWith(host, <<".">> \o base)) => slug = << >>
           /\ (EndsWith(host, <<".">> \o base) /\ Dots(label) # {}) => slug = << >>

\* the create_engine calls made for tenant T
EnginesMadeFor(T) == {i \in 1 .. Len(engines) : engines[i] = tenants[T].db_uri}

\* C24: within the process at most one engine is created for a tenant slug,
\* and a request resolved to the slug uses that engine, the one the first such
\* request created.
C24_OneEnginePerSlug ==
    \A T \in TenantIds :
        /\ Cardinality(EnginesMadeFor(T)) <= 1
        /\ (g.has_tenant_engine /\ g.tenant_engine.url = tenants[T].db_uri)
           => \A i \in EnginesMadeFor(T) : g.tenant_engine.serial <= i

\* the quote's rows form one chain: no step_order occurs twice
OneChain(q) ==
    \A a \in QuoteApprovals(approvals, q), b \in QuoteApprovals(approvals, q) :
        approvals[a].step_order = approvals[b].step_order => a = b

PendingRows(q) == {a \in QuoteApprovals(approvals, q) : approvals[a].status = "PENDING"}

\* both workers serve (or have just served) an APPROVE of the same row, which
\* each of them read while it was PENDING
BothApprove(row) ==
    \A w \in Workers :
        /\ frames[w].handler = "act_on_approval"
        /\ frames[w].decision = "APPROVE"
        /\ frames[w].approval_id = row

\* C25: however the commits of two concurrent APPROVE requests on one PENDING
\* row interleave, the quote never has two PENDING rows, and no row is PENDING
\* while a row before it in the chain is not APPROVED.
C25_ConcurrentApprovals ==
    \A row \in DOMAIN approvals :
        (BothApprove(row) /\ OneChain(approvals[row].quote_id))
        => LET q == approvals[row].quote_id
           IN  /\ Cardinality(PendingRows(q)) <= 1
               /\ \A a \in PendingRows(q), b \in QuoteApprovals(approvals, q) :
                     approvals[b].step_order < approvals[a].step_order
                     => approvals[b].status = "APPROVED"

TerminalStatuses == {"APPROVED", "REJECTED", "CANCELLED"}

\* C26: however concurrent act_on_approval requests on one quote interleave, a
\* row that has reached APPROVED, REJECTED or CANCELLED keeps that status for
\* as long as it exists.
C26_TerminalRowsStay ==
    [][\A a \in DOMAIN approvals \cap DOMAIN approvals' :
          approvals[a].status \in TerminalStatuses
          => approvals'[a].status = approvals[a].status]_vars

\* both workers have served request_approval on quote q to its end
BothRequested(q) ==
    \A w \in Workers :
        /\ frames[w].handler = "request_approval"
        /\ frames[w].q = q
        /\ frames[w].pc = "idle"

\* C27: however two concurrent request_approval calls on one unlocked quote
\* interleave, the quote ends with at most one row per (rule, step), no
\* step_order twice, and at most one PENDING row.
C27_ConcurrentRequests ==
    \A q \in Quotes :
        BothRequested(q)
        => /\ \A a \in QuoteApprovals(approvals, q), b \in QuoteApprovals(approvals, q) :
                 ( /\ approvals[a].rule_id = approvals[b].rule_id
                   /\ approvals[a].rule_step_id = approvals[b].rule_step_id )
                 => a = b
           /\ OneChain(q)
           /\ Cardinality(PendingRows(q)) <= 1

\* a request_approval on quote q and an act_on_approval on a row of q have
\* both been served to their end, one on each worker
RequestedAndActed(q) ==
    /\ \A w \in Workers : frames[w].pc = "idle" /\ frames[w].q = q
    /\ \E w \in Workers : frames[w].handler = "request_approval"
    /\ \E w \in Workers : frames[w].handler = "act_on_approval"

\* C29: however a request_approval call and act_on_approval calls on the rows
\* it creates interleave, once they have finished a quote in Pending Approval
\* has exactly one PENDING row.
C29_PendingQuoteHasPendingRow ==
    \A q \in Quotes :
        (RequestedAndActed(q) /\ quotes[q].status = "Pending Approval")
        => Cardinality(PendingRows(q)) = 1

\* C28: with the operations run one at a time, every approval row of a quote
\* whose status is Approved is APPROVED.
C28_ApprovedQuoteRows ==
    \A q \in Quotes :
        quotes[q].status = "Approved"
        => \A a \in QuoteApprovals(approvals, q) : approvals[a].status = "APPROVED"

\* the last open step of quote q is approved in this step
LastStepApproved(q) ==
    /\ \E a \in QuoteApprovals(approvals, q) :
          /\ approvals[a].status = "PENDING"
          /\ a \in DOMAIN approvals'
          /\ approvals'[a].status = "APPROVED"
    /\ \A a \in QuoteApprovals(approvals', q) : approvals'[a].status \notin {"WAITING", "PENDING"}

\* C30: with the operations run one at a time, no quote starts out Approved,
\* Selected or Sent; a quote becomes Selected only from Approved or Sent and
\* only by convert_quote_to_client; it becomes Sent only from Selected with a
\* saved proposal and only by mark_sent; it becomes Approved only by the
\* auto-approval of request_approval (no rule matches its total) or by the
\* approval of its last open step.  Hence a Selected or Sent quote has been
\* Approved before, and no Draft, Rejected or Pending Approval quote becomes
\* Selected or Sent in one step.
C30_StatusTransitions ==
    /\ \A q \in Quotes : quotes[q].status \notin {"Approved", "Selected", "Sent"}
    /\ [][\A q \in Quotes :
            quotes'[q].status # quotes[q].status
            => /\ quotes'[q].status = "Selected"
                  => /\ quotes[q].status \in {"Approved", "Sent"}
                     /\ response'.handler = "convert_quote_to_client"
               /\ quotes'[q].status = "Sent"
                  => /\ quotes[q].status = "Selected"
                     /\ quotes[q].proposal_created_at # None
                     /\ response'.handler = "mark_sent"
               /\ quotes'[q].status = "Approved"
                  => \/ /\ response'.handler = "request_approval"
                        /\ _matching_rules(quotes'[q].total) = << >>
                     \/ /\ response'.handler = "act_on_approval"
                        /\ LastStepApproved(q)]_vars

\* a quote has gone the whole way to Sent: converted to a client, proposal saved
C30_Witness ==
    \E q \in Quotes :
        /\ quotes[q].status = "Sent"
        /\ quotes[q].client_id # None
        /\ quotes[q].proposal_created_at # None
        /\ response.handler = "mark_sent"

====
